---- MODULE Spec2Model ----
(***************************************************************************)
(* WallLayerSplitter (pyRevit command SplitLayers): the batch command      *)
(* WallLayerSplitterCommand.execute, the per-wall split_wall, the deletion *)
(* gate can_delete_original_wall, the detach / restore / re-host of hosted *)
(* family instances and the layer-type cache with its retried naming.      *)
(*                                                                         *)
(* The Revit document is the state the command works on.  Lengths are      *)
(* integers in units of 0.5e-6 ft, so that half widths are integers and    *)
(* the 1e-6 ft tolerance of select_layer_for_instance is 2 units.          *)
(***************************************************************************)
EXTENDS Integers, Sequences, FiniteSets, TLC

VARIABLES
    pc,                  \* position of execute / split_wall
    doc,                 \* the mutable part of the Revit document
    wallEnv,             \* what the document says about each selected wall (read only)
    IsModifiable,        \* Document.IsModifiable
    target_walls,        \* execute: list(self.collect_target_walls(ui_doc))
    cur,                 \* execute: index of the wall of the for loop
    txState,             \* the inner Transaction
    tgState,             \* the TransactionGroup
    txSnapshot,          \* the document when the inner transaction started
    tgSnapshot,          \* the document when the group started
    split_results,       \* execute: split_results
    skip_messages,       \* self.skip_messages
    diagnostic_log,      \* self.diagnostic_log
    layer_type_cache,    \* self.layer_type_cache
    wall_type_name_map,  \* self.wall_type_name_map
    sw,                  \* the locals of the running split_wall
    err,                 \* the exception that is propagating, or "none"
    shown,               \* the dialogs shown by TaskDialog.Show, in order
    txlog,               \* history: the transaction calls made, in order
    hist                 \* history: per wall, the steps taken, the gate's answer and
                         \* the instances whose Parameter.Set was accepted at a restore

vars == <<pc, doc, wallEnv, IsModifiable, target_walls, cur, txState, tgState,
          txSnapshot, tgSnapshot, split_results, skip_messages, diagnostic_log,
          layer_type_cache, wall_type_name_map, sw, err, shown, txlog, hist>>

----------------------------------------------------------------------------
(* Bounds of the model *)

NumWalls == 2

(* Program constants *)

MAX_LAYER_TYPE_NAME_ATTEMPTS == 50
MaxDiagnosticLog == 100
RecentDiagnosticsLimit == 10
Tolerance == 2

----------------------------------------------------------------------------
(* Generic helpers *)

Range(s) == {s[i] : i \in 1..Len(s)}

RECURSIVE SetToSeq(_)
SetToSeq(S) ==
    IF S = {} THEN <<>>
    ELSE LET m == CHOOSE x \in S : \A y \in S : x <= y
         IN <<m>> \o SetToSeq(S \ {m})

RECURSIVE SumWidths(_, _)
SumWidths(layers, n) ==
    IF n = 0 THEN 0 ELSE SumWidths(layers, n - 1) + layers[n].Width

Abs(x) == IF x < 0 THEN -x ELSE x

----------------------------------------------------------------------------
(* Element ids.  ElementId.InvalidElementId is 0; an original wall has   *)
(* the id of its place in the document, and the elements around wall w    *)
(* have ids derived from w.  New elements get ids from doc.nextId.        *)

InvalidElementId == 0
WallIds == 1..NumWalls
InstanceOf(w) == 10 + w
JoinedOf(w) == 20 + w
DependentOf(w) == 30 + w

Layer(width, function, material) ==
    [Width |-> width, Function |-> function, MaterialId |-> material]

(* A wall type name, by its parts: the text of the base type's name, the  *)
(* layer number (0 for a type that is not a layer type)    , the     *)
(* layer function, the material name, the width label in millimetres and  *)
(* the suffix " (k)" of attempt k (1: no suffix).                          *)
TypeName(base, layerNo, function, material, mm, attempt) ==
    [base |-> base, layerNo |-> layerNo, function |-> function,
     material |-> material, mm |-> mm, attempt |-> attempt]

(* The wall types of the document before the command: a two-layer compound *)
(* type, a type of two membrane (zero width) layers, a one-layer type, a   *)
(* three-layer compound type, a type with a membrane layer between two     *)
(* layers that have a width, and a two-layer type whose name ("Long") is   *)
(* longer than SAFE_LAYER_TYPE_BASE_NAME_LENGTH characters.  Layer 1 is    *)
(* the exterior layer.                                                     *)
TypeIds == [compound |-> 41, membrane |-> 42, single |-> 43, compound3 |-> 44,
            sandwich |-> 45, longname |-> 46]

BaseTypes ==
    { [Id |-> TypeIds.compound, Name |-> TypeName("Ext", 0, "", "", 0, 1),
       Layers |-> << Layer(200000, "Finish1", 51), Layer(400000, "Structure", 52) >>,
       FirstCore |-> 1, LastCore |-> 1],
      [Id |-> TypeIds.membrane, Name |-> TypeName("Mem", 0, "", "", 0, 1),
       Layers |-> << Layer(0, "Membrane", 53), Layer(0, "Membrane", 53) >>,
       FirstCore |-> -1, LastCore |-> -1],
      [Id |-> TypeIds.single, Name |-> TypeName("One", 0, "", "", 0, 1),
       Layers |-> << Layer(600000, "Structure", 52) >>,
       FirstCore |-> 0, LastCore |-> 0],
      [Id |-> TypeIds.compound3, Name |-> TypeName("Tri", 0, "", "", 0, 1),
       Layers |-> << Layer(200000, "Finish1", 51), Layer(400000, "Structure", 52),
                     Layer(200000, "Finish2", 51) >>,
       FirstCore |-> 1, LastCore |-> 1],
      [Id |-> TypeIds.sandwich, Name |-> TypeName("Mix", 0, "", "", 0, 1),
       Layers |-> << Layer(200000, "Finish1", 51), Layer(0, "Membrane", 53),
                     Layer(400000, "Structure", 52) >>,
       FirstCore |-> 2, LastCore |-> 2],
      [Id |-> TypeIds.longname, Name |-> TypeName("Long", 0, "", "", 0, 1),
       Layers |-> << Layer(200000, "Finish1", 51), Layer(400000, "Structure", 52) >>,
       FirstCore |-> 1, LastCore |-> 1] }

MaterialNames == [m \in {51, 52, 53} |->
    CASE m = 51 -> "Brick" [] m = 52 -> "Concrete" [] OTHER -> ""]

(* document.GetElement(type_id) for a wall type; "None" is [Id |-> 0]. *)
NoneType == [Id |-> InvalidElementId]
GetType(d, id) ==
    IF \E t \in d.types : t.Id = id
    THEN CHOOSE t \in d.types : t.Id = id
    ELSE NoneType

(* try_get_wall_type: the wall's type, or None. *)
try_get_wall_type(d, env) ==
    IF env.typeId = InvalidElementId THEN NoneType ELSE GetType(d, env.typeId)

----------------------------------------------------------------------------
(* What the document says about a wall.  instances: the family instances   *)
(* that depend on the wall, each with the state of its HOST_ID_PARAM       *)
(* ("writable", "readonly", "missing") and its position across the wall;   *)
(* joinCls / joinUnjoin: the class of the element joined to the wall and   *)
(* what UnjoinGeometry does with it ("ok", "fails", or "notJoined" for an  *)
(* element that AreElementsJoined does not report as joined); otherDeps:   *)
(* the dependent elements that are no family instances.                    *)

PlainWall(w) ==
    [ id |-> w,
      typeId |-> TypeIds.compound,
      hasCurve |-> TRUE,
      locationLine |-> 0,
      instances |-> [i \in {InstanceOf(w)} |->
                        [param |-> "writable", hasOffset |-> TRUE, offset |-> 0]],
      joinCls |-> "none",
      joinUnjoin |-> "ok",
      otherDeps |-> {},
      owner |-> "",
      worksetEditable |-> TRUE,
      Pinned |-> FALSE,
      GroupId |-> InvalidElementId,
      DesignOptionId |-> InvalidElementId,
      AssemblyInstanceId |-> InvalidElementId,
      HasParts |-> FALSE,
      PhaseCreated |-> 1 ]

(* The walls a batch of the command is checked on. *)
MainWallEnvs(w) ==
    LET p == PlainWall(w) IN
    { p,
      [p EXCEPT !.typeId = InvalidElementId],
      [p EXCEPT !.typeId = TypeIds.single],
      [p EXCEPT !.typeId = TypeIds.membrane],
      [p EXCEPT !.typeId = TypeIds.compound3],
      [p EXCEPT !.typeId = TypeIds.sandwich],
      [p EXCEPT !.typeId = TypeIds.longname],
      [p EXCEPT !.hasCurve = FALSE],
      [p EXCEPT !.Pinned = TRUE, !.joinCls = "Floor"],
      [p EXCEPT !.otherDeps = {DependentOf(w)}],
      [p EXCEPT !.joinCls = "Wall"],
      [p EXCEPT !.joinCls = "Other", !.GroupId = 5],
      [p EXCEPT !.instances = [i \in {InstanceOf(w)} |->
                        [param |-> "readonly", hasOffset |-> TRUE, offset |-> 0]]],
      [p EXCEPT !.instances = [i \in {InstanceOf(w)} |->
                        [param |-> "writable", hasOffset |-> FALSE, offset |-> 0]]] }

(* Every combination of the inputs of the deletion gate, for one wall. *)
GateWallEnvs(w) ==
    { [PlainWall(w) EXCEPT !.joinCls = j[1], !.joinUnjoin = j[2], !.otherDeps = o, !.owner = ow,
                           !.worksetEditable = we, !.Pinned = pin, !.GroupId = g,
                           !.DesignOptionId = opt, !.AssemblyInstanceId = asm,
                           !.HasParts = parts, !.PhaseCreated = ph] :
        j \in {<<"none", "ok">>, <<"Floor", "ok">>, <<"Floor", "fails">>,
               <<"Floor", "notJoined">>, <<"Other", "ok">>},
        o \in {{}, {DependentOf(w)}, {JoinedOf(w)}},
        ow \in {"", "BOB "}, we \in BOOLEAN, pin \in BOOLEAN, g \in {InvalidElementId, 5},
        opt \in {InvalidElementId, 6}, asm \in {InvalidElementId, 7},
        parts \in BOOLEAN, ph \in {1, 2} }

(* The document before the command, for the walls of env. *)
InitialDoc(env, workshared, user) ==
    [ walls |-> DOMAIN env,
      newWalls |-> {},
      types |-> BaseTypes,
      host |-> [i \in UNION {DOMAIN env[w].instances : w \in DOMAIN env} |->
                    CHOOSE w \in DOMAIN env : i \in DOMAIN env[w].instances],
      hostFace |-> <<>>,
      joined |-> {<<w, JoinedOf(w)>> : w \in {x \in DOMAIN env : env[x].joinCls # "none"}},
      joinDisallowed |-> {},
      nextId |-> 100,
      IsWorkshared |-> workshared,
      Username |-> user,
      ActiveDesignOptionId |-> InvalidElementId,
      ActivePhaseId |-> 1 ]

(* The wall an element around it belongs to. *)
WallOf(e) == IF e > 30 THEN e - 30 ELSE IF e > 20 THEN e - 20 ELSE e - 10

InstInfo(i) == wallEnv[WallOf(i)].instances[i]
ElemClass(e) == wallEnv[WallOf(e)].joinCls
ElemUnjoin(e) == wallEnv[WallOf(e)].joinUnjoin

----------------------------------------------------------------------------
(* Diagnostics and skip reasons *)

(* Faulty variant of log_diagnostic: a full log keeps its oldest entries *)
log_diagnostic_KeepsOldest(log, message) ==
    IF message[1] = "" THEN log
    ELSE IF Len(log) >= MaxDiagnosticLog THEN log
    ELSE Append(log, message)

(* log_diagnostic: append, keep the last MaxDiagnosticLog entries.  A      *)
(* message is <<text, wall>>; the empty message <<"", w>> is not logged.   *)
log_diagnostic(log, message) ==
    IF message[1] = "" THEN log
    ELSE LET appended == Append(log, message)
         IN IF Len(appended) > MaxDiagnosticLog
            THEN SubSeq(appended, Len(appended) - MaxDiagnosticLog + 1, Len(appended))
            ELSE appended

RECURSIVE LogAll(_, _)
LogAll(log, messages) ==
    IF messages = <<>> THEN log
    ELSE LogAll(log_diagnostic(log, Head(messages)), Tail(messages))

(* get_recent_diagnostics(limit=10) *)
get_recent_diagnostics(log) ==
    IF Len(log) <= RecentDiagnosticsLimit THEN log
    ELSE SubSeq(log, Len(log) - RecentDiagnosticsLimit + 1, Len(log))

(* A fragment of a blocking reason: its text, by a tag and the elements it *)
(* lists.  A reason is the sequence of its "; "-joined fragments.          *)
Fragment(tag, items) == [tag |-> tag, items |-> items]

(* Faulty variant of add_blocking_reason: only the first reason is kept *)
add_blocking_reason_KeepsFirst(detected_reasons, reason) ==
    IF reason.tag # "" /\ detected_reasons = <<>>
    THEN <<reason>>
    ELSE detected_reasons

(* add_blocking_reason: append a reason that is not listed yet. *)
add_blocking_reason(detected_reasons, reason) ==
    IF reason.tag # "" /\ reason \notin Range(detected_reasons)
    THEN Append(detected_reasons, reason)
    ELSE detected_reasons

(* report_skip_reason: one message per wall and reason, not repeated. *)
report_skip_reason(messages, wall_id, reason) ==
    IF reason = <<>> THEN messages
    ELSE LET message == [wall |-> wall_id, reason |-> reason]
         IN IF message \in Range(messages) THEN messages ELSE Append(messages, message)

----------------------------------------------------------------------------
(* Hosted family instances *)

(* Faulty variant of is_hosted_by_wall: the host face is not looked at     *)
is_hosted_by_wall_HostOnly(d, inst, wall_id) ==
    inst \in DOMAIN d.host /\ d.host[inst] = wall_id

(* is_hosted_by_wall: by the Host or by the HostFace reference *)
is_hosted_by_wall(d, inst, wall_id) ==
    \/ inst \in DOMAIN d.host /\ d.host[inst] = wall_id
    \/ inst \in DOMAIN d.hostFace /\ d.hostFace[inst] = wall_id

(* wall.GetDependentElements(ElementClassFilter(FamilyInstance)) *)
HostedFamilyIds(d, env) ==
    {i \in DOMAIN env.instances : i \in DOMAIN d.host}

(* try_rehost_family_instance: set the HOST_ID_PARAM of the instance to    *)
(* new_host; setResult is what Parameter.Set does ("ok", "false",          *)
(* "raises").  Gives the document and whether the instance was re-hosted.  *)
try_rehost_family_instance(d, inst, new_host, setResult) ==
    IF new_host = InvalidElementId THEN [doc |-> d, ok |-> FALSE]
    ELSE IF InstInfo(inst).param # "writable" THEN [doc |-> d, ok |-> FALSE]
    ELSE IF setResult = "ok"
         THEN [doc |-> [d EXCEPT !.host[inst] = new_host], ok |-> TRUE]
         ELSE [doc |-> d, ok |-> FALSE]

(* detach_hosted_family_instances: setResults[i] is what Parameter.Set     *)
(* does for instance i. *)
RECURSIVE DetachLoop(_, _, _, _, _)
DetachLoop(d, wall_id, ids, setResults, acc) ==
    IF ids = <<>> THEN [doc |-> d, detached |-> acc.detached, failed |-> acc.failed]
    ELSE LET i == Head(ids) IN
         IF ~ is_hosted_by_wall(d, i, wall_id)
         THEN DetachLoop(d, wall_id, Tail(ids), setResults, acc)
         ELSE IF InstInfo(i).param # "writable"
         THEN DetachLoop(d, wall_id, Tail(ids), setResults,
                         [acc EXCEPT !.failed = Append(@, i)])
         ELSE IF setResults[i] = "ok"
         THEN DetachLoop([d EXCEPT !.host[i] = InvalidElementId], wall_id, Tail(ids),
                         setResults, [acc EXCEPT !.detached = Append(@, i)])
         ELSE DetachLoop(d, wall_id, Tail(ids), setResults,
                         [acc EXCEPT !.failed = Append(@, i)])

detach_hosted_family_instances(d, wall_id, hosted_family_ids, setResults) ==
    DetachLoop(d, wall_id, SetToSeq(hosted_family_ids), setResults,
               [detached |-> <<>>, failed |-> <<>>])

(* restore_family_instances_to_host: the result of each re-host is dropped *)
RECURSIVE restore_family_instances_to_host(_, _, _, _)
restore_family_instances_to_host(d, family_instances, host_wall, setResults) ==
    IF family_instances = <<>> THEN d
    ELSE LET i == Head(family_instances) IN
         IF i \notin DOMAIN d.host
         THEN restore_family_instances_to_host(d, Tail(family_instances), host_wall, setResults)
         ELSE restore_family_instances_to_host(
                  try_rehost_family_instance(d, i, host_wall, setResults[i]).doc,
                  Tail(family_instances), host_wall, setResults)

----------------------------------------------------------------------------
(* The deletion gate *)

(* str.strip() and str.lower() on the user names of the model *)
Strip(name) == CASE name = "BOB " -> "BOB" [] name = " " -> "" [] OTHER -> name
Lower(name) == CASE name = "BOB" -> "bob" [] name = "BOB " -> "bob "
                 [] name = "Ext" -> "ext" [] name = "Mem" -> "mem" [] name = "One" -> "one"
                 [] name = "Tri" -> "tri" [] name = "Finish2" -> "finish2"
                 [] name = "Brick" -> "brick" [] name = "Concrete" -> "concrete"
                 [] name = "Finish1" -> "finish1" [] name = "Structure" -> "structure"
                 [] name = "Membrane" -> "membrane"
                 [] OTHER -> name

get_element_owner_name(env) == Strip(env.owner)
get_document_username(d) == Strip(d.Username)
normalize_username(username) == Lower(Strip(username))

(* Faulty variant of is_owned_by_another_user: the names are compared as   *)
(* they are, in their own case                                             *)
is_owned_by_another_user_ExactMatch(owner_name, current_username) ==
    IF owner_name = "" THEN FALSE
    ELSE IF current_username = "" THEN TRUE
    ELSE owner_name # current_username

is_owned_by_another_user(owner_name, current_username) ==
    LET owner == normalize_username(owner_name)
        current == normalize_username(current_username)
    IN IF owner = "" THEN FALSE
       ELSE IF current = "" THEN TRUE
       ELSE owner # current

(* Faulty variant of can_element_be_safely_unjoined: every joined element  *)
(* is taken for a HostObject                                               *)
can_element_be_safely_unjoined_AnyElement(e) == TRUE

(* can_element_be_safely_unjoined: isinstance(element, HostObject) *)
can_element_be_safely_unjoined(e) == ElemClass(e) \in {"Wall", "Floor"}

(* JoinGeometryUtils.GetJoinedElements(doc, wall) *)
GetJoinedElements(d, wall_id) == {p[2] : p \in {q \in d.joined : q[1] = wall_id}}

(* JoinGeometryUtils.AreElementsJoined(doc, wall, e): an element that      *)
(* GetJoinedElements lists may be reported as not joined                   *)
AreElementsJoined(d, wall_id, e) ==
    <<wall_id, e>> \in d.joined /\ ElemUnjoin(e) # "notJoined"

(* try_unjoin_geometry: the document after it, its answer, and whether     *)
(* UnjoinGeometry was called *)
try_unjoin_geometry(d, wall_id, e) ==
    IF ~ AreElementsJoined(d, wall_id, e)
    THEN [doc |-> d, ok |-> TRUE, requested |-> FALSE]
    ELSE IF ElemUnjoin(e) = "ok"
         THEN [doc |-> [d EXCEPT !.joined = @ \ {<<wall_id, e>>}], ok |-> TRUE,
               requested |-> TRUE]
         ELSE [doc |-> d, ok |-> FALSE, requested |-> TRUE]

(* try_disallow_wall_joins_at_both_ends *)
try_disallow_wall_joins_at_both_ends(d, wall_id) ==
    [d EXCEPT !.joinDisallowed = @ \cup {wall_id}]

(* try_detach_joined_elements: acc holds detached_elements,                *)
(* failure_messages and blocked_element_ids *)
RECURSIVE JoinDetachLoop(_, _, _, _)
JoinDetachLoop(d, wall_id, ids, acc) ==
    IF ids = <<>>
    THEN [doc |-> d, detached |-> acc.detached, failures |-> acc.failures,
          requested |-> acc.requested]
    ELSE LET e == Head(ids) IN
         IF ~ can_element_be_safely_unjoined(e)
         THEN JoinDetachLoop(d, wall_id, Tail(ids),
                  [acc EXCEPT !.failures = IF e \in acc.blocked THEN @ ELSE Append(@, e),
                              !.blocked = @ \cup {e}])
         ELSE LET r == try_unjoin_geometry(d, wall_id, e) IN
              IF r.ok
              THEN JoinDetachLoop(
                       IF ElemClass(e) = "Wall"
                       THEN try_disallow_wall_joins_at_both_ends(
                                try_disallow_wall_joins_at_both_ends(r.doc, wall_id), e)
                       ELSE r.doc,
                       wall_id, Tail(ids),
                       [acc EXCEPT !.detached = Append(@, e),
                                   !.requested = IF r.requested THEN @ \cup {e} ELSE @])
              ELSE JoinDetachLoop(r.doc, wall_id, Tail(ids),
                                  [acc EXCEPT !.failures = Append(@, e),
                                              !.requested = @ \cup {e}])

try_detach_joined_elements(d, wall_id) ==
    JoinDetachLoop(d, wall_id, SetToSeq(GetJoinedElements(d, wall_id)),
                   [detached |-> <<>>, failures |-> <<>>, blocked |-> {}, requested |-> {}])

(* wall.GetDependentElements(None): the wall, its family instances and its *)
(* other dependent elements *)
GetDependentElements(d, env) ==
    {env.id} \cup {i \in DOMAIN env.instances : i \in DOMAIN d.host} \cup env.otherDeps

(* One check of can_delete_original_wall: the reason is added when the     *)
(* blocking condition holds *)
BlockIf(detected_reasons, condition, reason) ==
    IF condition THEN add_blocking_reason(detected_reasons, reason) ELSE detected_reasons

(* The reasons of can_delete_original_wall before the dependent elements   *)
(* are looked at, one check after the other (lines 1033-1108) *)
GateReasonsBeforeDependents(d, modifiable, env, join_detach_failures) ==
    LET r1 == BlockIf(<<>>, join_detach_failures # <<>>,
                      Fragment("join", Range(join_detach_failures)))
        r2 == BlockIf(r1, ~ modifiable, Fragment("readonly", {}))
        r3 == BlockIf(r2, d.IsWorkshared
                          /\ is_owned_by_another_user(get_element_owner_name(env),
                                                      get_document_username(d)),
                      Fragment("owner", {}))
        r4 == BlockIf(r3, d.IsWorkshared /\ ~ env.worksetEditable, Fragment("workset", {}))
        r5 == BlockIf(r4, env.Pinned, Fragment("pinned", {}))
        r6 == BlockIf(r5, env.GroupId # InvalidElementId, Fragment("group", {}))
        r7 == BlockIf(r6, env.DesignOptionId # InvalidElementId
                          /\ env.DesignOptionId # d.ActiveDesignOptionId,
                      Fragment("option", {env.DesignOptionId}))
        r8 == BlockIf(r7, env.AssemblyInstanceId # InvalidElementId,
                      Fragment("assembly", {env.AssemblyInstanceId}))
        r9 == BlockIf(r8, env.HasParts, Fragment("parts", {}))
    IN BlockIf(r9, env.PhaseCreated # InvalidElementId
                   /\ d.ActivePhaseId # InvalidElementId
                   /\ d.ActivePhaseId # env.PhaseCreated,
               Fragment("phase", {env.PhaseCreated}))

(* Faulty variant of BlockingDependents: a joined element the gate has     *)
(* detached still counts as a dependent element                            *)
BlockingDependents_CountsUnjoined(d, env, detached_family_ids, detached_joined_ids) ==
    {x \in GetDependentElements(d, env) :
        /\ x # InvalidElementId
        /\ x # env.id
        /\ x \notin detached_family_ids}

(* The dependent elements that block: not the wall, not a detached family  *)
(* instance, not a joined element detached by the gate *)
BlockingDependents(d, env, detached_family_ids, detached_joined_ids) ==
    {x \in GetDependentElements(d, env) :
        /\ x # InvalidElementId
        /\ x # env.id
        /\ x \notin detached_family_ids
        /\ x \notin detached_joined_ids}

(* can_delete_original_wall: [allowed, reason, doc (joins detached), log] *)
can_delete_original_wall(d, modifiable, env, detached_family_ids) ==
    LET dj == IF modifiable
              THEN try_detach_joined_elements(d, env.id)
              ELSE [doc |-> d, detached |-> <<>>, failures |-> <<>>, requested |-> {}]
        before == GateReasonsBeforeDependents(dj.doc, modifiable, env, dj.failures)
        blocking == BlockingDependents(dj.doc, env, detached_family_ids, Range(dj.detached))
        detected_reasons ==
            IF before = <<>> /\ blocking # {}
            THEN add_blocking_reason(before, Fragment("dependents", blocking))
            ELSE before
    IN [ allowed |-> detected_reasons = <<>>,
         reason |-> detected_reasons,
         doc |-> dj.doc,
         joins |-> [detached |-> dj.detached, failures |-> dj.failures,
                    requested |-> dj.requested],
         log |-> (IF modifiable THEN <<>> ELSE << <<"join detach impossible", env.id>> >>)
                 \o [k \in 1..Len(detected_reasons) |->
                        <<"blocking: " \o detected_reasons[k].tag, env.id>>] ]

----------------------------------------------------------------------------
(* Layer types and their names *)

(* "{0:.0f}mm".format(layer.Width * 304.8): the width in millimetres,      *)
(* rounded half to even.  A unit is 0.5e-6 ft = 1524e-7 mm.                *)
WidthMM(width) ==
    LET n == width * 1524
        q == n \div 10000000
        r == n % 10000000
    IN IF 2 * r > 10000000 \/ (2 * r = 10000000 /\ q % 2 = 1) THEN q + 1 ELSE q

(* make_valid_wall_type_name(raw_name) at the end of build_layer_type_name: *)
(* the name is cut to its first SAFE_LAYER_TYPE_BASE_NAME_LENGTH           *)
(* characters.  The names of the model hold no illegal character; all but  *)
(* those of a base type with a long name are shorter than the limit and    *)
(* are left as they are; of a name that starts with a long base name only  *)
(* the head of the base name ("Long60") is left.                           *)
LongBaseNames == {"Long"}

TruncateTypeName(name) ==
    IF name.base \in LongBaseNames
    THEN TypeName("Long60", 0, "", "", 0, name.attempt)
    ELSE name

(* build_layer_type_name *)
build_layer_type_name(base_type, layer, index) ==
    TruncateTypeName(
        TypeName(base_type.Name.base, index + 1, layer.Function,
                 IF layer.MaterialId # InvalidElementId /\ MaterialNames[layer.MaterialId] # ""
                 THEN MaterialNames[layer.MaterialId] ELSE "NoMaterial",
                 WidthMM(layer.Width), 1))

(* build_candidate_layer_type_name: attempt 1 is the base name, attempt k  *)
(* the base name with the suffix " (k)" *)
build_candidate_layer_type_name(base_name, attempt) ==
    IF attempt <= 1 THEN base_name ELSE [base_name EXCEPT !.attempt = attempt]

(* str.lower() of a type name *)
LowerName(name) ==
    [name EXCEPT !.base = Lower(@), !.function = Lower(@), !.material = Lower(@)]

(* normalize_wall_type_name: strip().lower() *)
normalize_wall_type_name(name) == LowerName(name)

(* build_layer_type_key; round(layer.Width, 8) leaves a whole number of    *)
(* units as it is (a unit is 50e-8 ft) *)
build_layer_type_key(base_type_id, layer, index) ==
    <<base_type_id, layer.MaterialId, index, layer.Width>>

(* self.wall_type_name_map is [built, map]: None is built = FALSE; map     *)
(* takes a normalized name to the id of its type.                          *)
get_wall_type_name_map(nm, d) ==
    IF nm.built THEN nm
    ELSE [built |-> TRUE,
          map |-> [k \in {normalize_wall_type_name(t.Name) : t \in d.types} |->
                      (CHOOSE t \in d.types : normalize_wall_type_name(t.Name) = k).Id]]

(* Faulty variant of register_wall_type: the map is built and the new     *)
(* type is not entered                                                     *)
register_wall_type_Forgets(nm, d, wall_type) == get_wall_type_name_map(nm, d)

(* register_wall_type *)
register_wall_type(nm, d, wall_type) ==
    LET built == get_wall_type_name_map(nm, d)
        k == normalize_wall_type_name(wall_type.Name)
    IN [built EXCEPT !.map = [x \in DOMAIN built.map \cup {k} |->
                                 IF x = k THEN wall_type.Id ELSE built.map[x]]]

(* The attempts of duplicate_wall_type_with_safe_name that yield a type:   *)
(* the name is not in the name map, and Duplicate accepts it (rejected:    *)
(* the attempts for which Duplicate raises ArgumentException; it also      *)
(* raises for the name of a type of the document).                         *)
FreeAttempts(nm, d, base_name, rejected) ==
    {k \in 1..MAX_LAYER_TYPE_NAME_ATTEMPTS :
        LET candidate_name == build_candidate_layer_type_name(base_name, k) IN
        /\ normalize_wall_type_name(candidate_name) \notin DOMAIN nm.map
        /\ k \notin rejected
        /\ \A t \in d.types : t.Name # candidate_name}

(* duplicate_wall_type_with_safe_name: [doc, nm, typeId, raised] *)
duplicate_wall_type_with_safe_name(d, nm0, base_type, desired_name, rejected) ==
    LET nm == get_wall_type_name_map(nm0, d)
        free == FreeAttempts(nm, d, desired_name, rejected)
    IN IF free = {}
       THEN [doc |-> d, nm |-> nm, typeId |-> InvalidElementId, raised |-> TRUE]
       ELSE LET attempt == CHOOSE k \in free : \A j \in free : k <= j
                duplicated == [base_type EXCEPT
                                  !.Id = d.nextId,
                                  !.Name = build_candidate_layer_type_name(desired_name, attempt)]
            IN [doc |-> [d EXCEPT !.types = @ \cup {duplicated}, !.nextId = @ + 1],
                nm |-> register_wall_type(nm, d, duplicated),
                typeId |-> duplicated.Id,
                raised |-> FALSE]

(* Faulty variant of get_or_create_layer_type: no look-up in the cache, in  *)
(* the document or in the name map; every call duplicates the base type   *)
get_or_create_layer_type_NoReuse(d, cache0, nm0, base_type, layer, index, rejected) ==
    LET cache_key == build_layer_type_key(base_type.Id, layer, index)
        type_name == build_layer_type_name(base_type, layer, index)
        dup == duplicate_wall_type_with_safe_name(d, get_wall_type_name_map(nm0, d),
                                                  base_type, type_name, rejected)
        created == GetType(dup.doc, dup.typeId)
        single == [created EXCEPT !.Layers = <<layer>>, !.FirstCore = 0, !.LastCore = 0]
    IN IF dup.raised
       THEN [doc |-> dup.doc, cache |-> cache0, nm |-> dup.nm,
             typeId |-> InvalidElementId, raised |-> TRUE]
       ELSE [doc |-> [dup.doc EXCEPT !.types = (@ \ {created}) \cup {single}],
             cache |-> [k \in DOMAIN cache0 \cup {cache_key} |->
                           IF k = cache_key THEN dup.typeId ELSE cache0[k]],
             nm |-> dup.nm, typeId |-> dup.typeId, raised |-> FALSE]

(* get_or_create_layer_type: [doc, cache, nm, typeId, raised] *)
get_or_create_layer_type(d, cache0, nm0, base_type, layer, index, rejected) ==
    LET cache_key == build_layer_type_key(base_type.Id, layer, index)
        cachedValid == cache_key \in DOMAIN cache0
                       /\ GetType(d, cache0[cache_key]) # NoneType
        cache == IF cache_key \in DOMAIN cache0 /\ ~ cachedValid
                 THEN [k \in DOMAIN cache0 \ {cache_key} |-> cache0[k]]
                 ELSE cache0
        Cached(id) == [k \in DOMAIN cache \cup {cache_key} |->
                          IF k = cache_key THEN id ELSE cache[k]]
        type_name == build_layer_type_name(base_type, layer, index)
        sameName == {t \in d.types : LowerName(t.Name) = LowerName(type_name)}
        nmFind == get_wall_type_name_map(nm0, d)
    IN IF cachedValid
       THEN [doc |-> d, cache |-> cache0, nm |-> nm0,
             typeId |-> cache0[cache_key], raised |-> FALSE]
       ELSE IF sameName # {}
       THEN LET candidate == CHOOSE t \in sameName : \A u \in sameName : t.Id <= u.Id
            IN [doc |-> d, cache |-> Cached(candidate.Id), nm |-> nm0,
                typeId |-> candidate.Id, raised |-> FALSE]
       ELSE IF normalize_wall_type_name(type_name) \in DOMAIN nmFind.map
       THEN LET id == nmFind.map[normalize_wall_type_name(type_name)]
            IN [doc |-> d, cache |-> Cached(id), nm |-> nmFind,
                typeId |-> id, raised |-> FALSE]
       ELSE LET dup == duplicate_wall_type_with_safe_name(d, nmFind, base_type,
                                                          type_name, rejected)
            IN IF dup.raised
               THEN [doc |-> dup.doc, cache |-> cache, nm |-> dup.nm,
                     typeId |-> InvalidElementId, raised |-> TRUE]
               ELSE LET created == GetType(dup.doc, dup.typeId)
                        single == [created EXCEPT !.Layers = <<layer>>,
                                                  !.FirstCore = 0, !.LastCore = 0]
                    IN [doc |-> [dup.doc EXCEPT !.types = (@ \ {created}) \cup {single}],
                        cache |-> Cached(dup.typeId), nm |-> dup.nm,
                        typeId |-> dup.typeId, raised |-> FALSE]

----------------------------------------------------------------------------
(* Offsets of the layers *)

(* resolve_wall_location_line: 0 wall centerline, 1 core centerline,       *)
(* 2 finish face exterior, 3 finish face interior, 4 core face exterior,   *)
(* 5 core face interior; anything else is the wall centerline.             *)
resolve_wall_location_line(parameter_value) ==
    IF parameter_value \in 0..5 THEN parameter_value ELSE 0

(* Faulty variant of calculate_total_thickness: the innermost layer is    *)
(* left out of the sum                                                     *)
calculate_total_thickness_WithoutLastLayer(layers) == SumWidths(layers, Len(layers) - 1)

(* calculate_total_thickness *)
calculate_total_thickness(layers) == SumWidths(layers, Len(layers))

(* Faulty variant of calculate_layer_center_offset: the layer itself is     *)
(* counted among the layers before it                                     *)
calculate_layer_center_offset_CountsLayer(layers, index, exterior_face_offset) ==
    exterior_face_offset - (SumWidths(layers, index + 1) + layers[index + 1].Width \div 2)

(* calculate_layer_center_offset; index counts from 0 *)
calculate_layer_center_offset(layers, index, exterior_face_offset) ==
    exterior_face_offset - (SumWidths(layers, index) + layers[index + 1].Width \div 2)

(* Faulty variant of try_get_core_thicknesses: the last core layer is      *)
(* counted with the interior shell                                         *)
try_get_core_thicknesses_CoreEndsEarly(structure, layers) ==
    IF structure.FirstCore < 0 \/ structure.LastCore < 0
       \/ structure.LastCore < structure.FirstCore
    THEN [success |-> FALSE, exterior |-> 0, core |-> 0, interior |-> 0]
    ELSE LET n == Len(layers)
             first == IF structure.FirstCore > n THEN n ELSE structure.FirstCore
             last == IF structure.LastCore > n THEN n ELSE structure.LastCore
         IN [success |-> TRUE,
             exterior |-> SumWidths(layers, first),
             core |-> SumWidths(layers, last) - SumWidths(layers, first),
             interior |-> SumWidths(layers, n) - SumWidths(layers, last)]

(* try_get_core_thicknesses: [success, exterior, core, interior] *)
try_get_core_thicknesses(structure, layers) ==
    IF structure.FirstCore < 0 \/ structure.LastCore < 0
       \/ structure.LastCore < structure.FirstCore
    THEN [success |-> FALSE, exterior |-> 0, core |-> 0, interior |-> 0]
    ELSE LET n == Len(layers)
             first == IF structure.FirstCore > n THEN n ELSE structure.FirstCore
             last == IF structure.LastCore + 1 > n THEN n ELSE structure.LastCore + 1
         IN [success |-> TRUE,
             exterior |-> SumWidths(layers, first),
             core |-> SumWidths(layers, last) - SumWidths(layers, first),
             interior |-> SumWidths(layers, n) - SumWidths(layers, last)]

calculate_reference_offset(structure, layers, wall_location_line, exterior_face_offset) ==
    LET c == try_get_core_thicknesses(structure, layers) IN
    CASE wall_location_line = 0 -> 0
      [] wall_location_line = 2 -> exterior_face_offset
      [] wall_location_line = 3 -> - exterior_face_offset
      [] wall_location_line = 4 ->
            IF c.success THEN exterior_face_offset - c.exterior ELSE 0
      [] wall_location_line = 5 ->
            IF c.success THEN - exterior_face_offset + c.interior ELSE 0
      [] wall_location_line = 1 ->
            IF c.success THEN exterior_face_offset - (c.exterior + c.core \div 2) ELSE 0
      [] OTHER -> 0

(* Faulty variant of LayerOffsetFromReference: the reference offset is     *)
(* taken from the layers up to the layer, not from the whole wall          *)
LayerOffsetFromReference_ReferencePerLayer(structure, location_line, index) ==
    LET layers == structure.Layers
        exterior_face_offset == calculate_total_thickness(layers) \div 2
        upTo == SubSeq(layers, 1, index + 1)
    IN calculate_reference_offset(structure, upTo,
                                  resolve_wall_location_line(location_line),
                                  calculate_total_thickness(upTo) \div 2)
       + calculate_layer_center_offset(layers, index, exterior_face_offset)

(* The offset of layer index from the wall's reference line *)
LayerOffsetFromReference(structure, location_line, index) ==
    LET layers == structure.Layers
        exterior_face_offset == calculate_total_thickness(layers) \div 2
    IN calculate_reference_offset(structure, layers,
                                  resolve_wall_location_line(location_line),
                                  exterior_face_offset)
       + calculate_layer_center_offset(layers, index, exterior_face_offset)

(* LayerWallInfo *)
LayerWallInfo(wall, layer, index, center_offset) ==
    [wall |-> wall, layer |-> layer, index |-> index,
     center_offset |-> center_offset, half_width |-> layer.Width \div 2]

contains_offset(info, offset, tolerance) ==
    /\ info.center_offset - info.half_width - tolerance <= offset
    /\ offset <= info.center_offset + info.half_width + tolerance

(* choose_layer_by_function: the place in layer_infos of the first         *)
(* "Structure" layer, else of the first widest layer; 0 is None.           *)
choose_layer_by_function(layer_infos) ==
    IF layer_infos = <<>> THEN 0
    ELSE LET structural == {k \in 1..Len(layer_infos) :
                               layer_infos[k].layer.Function = "Structure"}
             widest == {k \in 1..Len(layer_infos) :
                           \A j \in 1..Len(layer_infos) :
                               layer_infos[j].layer.Width <= layer_infos[k].layer.Width}
         IN IF structural # {}
            THEN CHOOSE k \in structural : \A j \in structural : k <= j
            ELSE CHOOSE k \in widest : \A j \in widest : k <= j

(* Faulty variant of select_layer_for_instance: the first layer whose band *)
(* holds the offset is taken, not the nearest                              *)
select_layer_for_instance_FirstInBand(inst, layer_infos) ==
    LET candidates == {k \in 1..Len(layer_infos) :
                          contains_offset(layer_infos[k], inst.offset, Tolerance)}
    IN IF inst.hasOffset /\ candidates # {}
       THEN CHOOSE k \in candidates : \A j \in candidates : k <= j
       ELSE choose_layer_by_function(layer_infos)

(* select_layer_for_instance: the place in layer_infos of the chosen layer *)
select_layer_for_instance(inst, layer_infos) ==
    LET offset == inst.offset
        candidates == {k \in 1..Len(layer_infos) :
                          contains_offset(layer_infos[k], offset, Tolerance)}
        nearest == {k \in candidates :
                       \A j \in candidates :
                           Abs(layer_infos[k].center_offset - offset)
                               <= Abs(layer_infos[j].center_offset - offset)}
    IN IF inst.hasOffset /\ candidates # {}
       THEN CHOOSE k \in nearest : \A j \in nearest : k <= j
       ELSE choose_layer_by_function(layer_infos)

(* rehost_family_instances: [doc, rehosted, unmatched] *)
RECURSIVE RehostLoop(_, _, _, _, _)
RehostLoop(d, layer_infos, instances, setResults, acc) ==
    IF instances = <<>> THEN [doc |-> d, rehosted |-> acc.rehosted, unmatched |-> acc.unmatched]
    ELSE LET i == Head(instances) IN
         IF i \notin DOMAIN d.host
         THEN RehostLoop(d, layer_infos, Tail(instances), setResults, acc)
         ELSE LET target == select_layer_for_instance(InstInfo(i), layer_infos) IN
              IF target = 0
              THEN RehostLoop(d, layer_infos, Tail(instances), setResults,
                              [acc EXCEPT !.unmatched = Append(@, i)])
              ELSE LET r == try_rehost_family_instance(d, i, layer_infos[target].wall,
                                                       setResults[i])
                   IN IF r.ok
                      THEN RehostLoop(r.doc, layer_infos, Tail(instances), setResults,
                                      [acc EXCEPT !.rehosted = Append(@, i)])
                      ELSE RehostLoop(r.doc, layer_infos, Tail(instances), setResults,
                                      [acc EXCEPT !.unmatched = Append(@, i)])

(* Faulty variant of rehost_family_instances: an instance whose host was   *)
(* not set is left out of the result                                       *)
rehost_family_instances_DropsUnmatched(d, layer_infos, detached_instances, setResults) ==
    IF layer_infos = <<>> \/ detached_instances = <<>>
    THEN [doc |-> d, rehosted |-> <<>>, unmatched |-> <<>>]
    ELSE [RehostLoop(d, layer_infos, detached_instances, setResults,
                     [rehosted |-> <<>>, unmatched |-> <<>>])
          EXCEPT !.unmatched = <<>>]

(* rehost_family_instances *)
rehost_family_instances(d, layer_infos, detached_instances, setResults) ==
    IF layer_infos = <<>> \/ detached_instances = <<>>
    THEN [doc |-> d, rehosted |-> <<>>, unmatched |-> <<>>]
    ELSE RehostLoop(d, layer_infos, detached_instances, setResults,
                    [rehosted |-> <<>>, unmatched |-> <<>>])

----------------------------------------------------------------------------
(* The state of the command *)

(* What Parameter.Set does when the host parameter is writable, and the    *)
(* attempts for which WallType.Duplicate raises: none, or every one.       *)
SetResults == {"ok", "false", "raises"}
RejectChoices == {{}, 1..MAX_LAYER_TYPE_NAME_ATTEMPTS}

(* The instances for which Parameter.Set answers true *)
SetAccepted(setResults) == {i \in DOMAIN setResults : setResults[i] = "ok"}

(* The locals of split_wall. returned: "running", "None" or "result".      *)
NewFrame(wall_id) ==
    [ wall |-> wall_id, detached |-> <<>>, failed |-> <<>>,
      can_delete |-> FALSE, delete_reason |-> <<>>,
      created |-> <<>>, infos |-> <<>>, layerIdx |-> 0,
      rehosted |-> <<>>, unmatched |-> <<>>, returned |-> "running" ]

(* WallSplitResult *)
WallSplitResult(frame) ==
    [ original_wall_id |-> frame.wall,
      created_wall_ids |-> frame.created,
      rehosted_instance_ids |-> frame.rehosted,
      unmatched_instance_ids |-> frame.unmatched,
      failed_detach_instance_ids |-> frame.failed ]

(* What try_detach_joined_elements did for a wall, before it is called *)
NoJoins == [detached |-> <<>>, failures |-> <<>>, requested |-> {}]

(* The history of wall w with step name entered *)
Step(h, w, name) ==
    IF h[w].steps # <<>> /\ h[w].steps[Len(h[w].steps)] = name THEN h
    ELSE [h EXCEPT ![w].steps = Append(@, name)]

InitCommon(n, envs) ==
    /\ target_walls = [k \in 1..n |-> k]
    /\ wallEnv \in envs
    /\ doc = InitialDoc(wallEnv, FALSE, "bob")
    /\ IsModifiable = FALSE
    /\ cur = 0
    /\ txState = "unstarted"
    /\ tgState = "unstarted"
    /\ txSnapshot = doc
    /\ tgSnapshot = doc
    /\ split_results = <<>>
    /\ skip_messages = <<>>
    /\ diagnostic_log = <<>>
    /\ layer_type_cache = <<>>
    /\ wall_type_name_map = [built |-> FALSE, map |-> <<>>]
    /\ sw = NewFrame(InvalidElementId)
    /\ err = "none"
    /\ shown = <<>>
    /\ txlog = <<>>
    /\ hist = [w \in 1..n |-> [steps |-> <<>>, gate |-> "none", restoreSet |-> {},
                               joins |-> NoJoins]]

(* The batches of n walls, wall w drawn from Kinds(w) *)
Batches(n, Kinds(_)) ==
    {f \in [1..n -> UNION {Kinds(w) : w \in 1..n}] : \A w \in 1..n : f[w] \in Kinds(w)}

(* A command object on a batch of 0..NumWalls selected walls *)
Init ==
    /\ pc = "idle"
    /\ \E n \in 0..NumWalls : InitCommon(n, Batches(n, MainWallEnvs))

----------------------------------------------------------------------------
(* The Revit transaction primitives: a roll back restores the document     *)
(* of the start, and the document is modifiable while the inner            *)
(* transaction is started.                                                 *)

HasStarted == txState = "started"

TransactionStart ==
    /\ txState' = "started"
    /\ txSnapshot' = doc
    /\ IsModifiable' = TRUE
    /\ txlog' = Append(txlog, "Transaction.Start")

TransactionCommit(d) ==
    /\ txState' = "committed"
    /\ doc' = d
    /\ IsModifiable' = FALSE

TransactionRollBack ==
    /\ txState' = "rolledback"
    /\ doc' = txSnapshot
    /\ IsModifiable' = FALSE

GroupRollBack(log) ==
    /\ tgState' = "rolledback"
    /\ doc' = tgSnapshot
    /\ txlog' = Append(log, "TransactionGroup.RollBack")

----------------------------------------------------------------------------
(* execute *)

(* execute, to the start of the transaction group (lines 302-333) *)
ExecuteStart ==
    /\ pc = "idle"
    /\ skip_messages' = <<>>
    /\ split_results' = <<>>
    /\ IF target_walls = <<>>
       THEN /\ diagnostic_log' = LogAll(<<>>, << <<"command started", 0>> >>)
            /\ shown' = Append(shown, "no walls")
            /\ pc' = "done"
       ELSE /\ diagnostic_log' = LogAll(<<>>, << <<"command started", 0>>,
                                                 <<"walls found", Len(target_walls)>> >>)
            /\ shown' = shown
            /\ pc' = "tgroup_start"
    /\ UNCHANGED <<doc, wallEnv, IsModifiable, target_walls, cur, txState, tgState,
                   txSnapshot, tgSnapshot, layer_type_cache, wall_type_name_map,
                   sw, err, txlog, hist>>

(* tgroup.Start() *)
GroupStart ==
    /\ pc = "tgroup_start"
    /\ tgState' = "started"
    /\ tgSnapshot' = doc
    /\ txlog' = Append(txlog, "TransactionGroup.Start")
    /\ pc' = "tx_start"
    /\ UNCHANGED <<doc, wallEnv, IsModifiable, target_walls, cur, txState, txSnapshot,
                   split_results, skip_messages, diagnostic_log, layer_type_cache,
                   wall_type_name_map, sw, err, shown, hist>>

(* Faulty variant of TxStart: the loop starts at the last selected wall    *)
TxStart_StartsAtLastWall ==
    /\ pc = "tx_start"
    /\ TransactionStart
    /\ cur' = Len(target_walls)
    /\ pc' = "loop"
    /\ UNCHANGED <<doc, wallEnv, target_walls, tgState, tgSnapshot, split_results,
                   skip_messages, diagnostic_log, layer_type_cache, wall_type_name_map,
                   sw, err, shown, hist>>

(* transaction.Start() *)
TxStart ==
    /\ pc = "tx_start"
    /\ TransactionStart
    /\ cur' = 1
    /\ pc' = "loop"
    /\ UNCHANGED <<doc, wallEnv, target_walls, tgState, tgSnapshot, split_results,
                   skip_messages, diagnostic_log, layer_type_cache, wall_type_name_map,
                   sw, err, shown, hist>>

(* The head of the for loop over target_walls (lines 345-366) *)
LoopHead ==
    /\ pc = "loop"
    /\ IF cur > Len(target_walls)
       THEN /\ pc' = "after_loop"
            /\ UNCHANGED <<cur, skip_messages, diagnostic_log, sw, hist>>
       ELSE LET wall == target_walls[cur]
                base_type == try_get_wall_type(doc, wallEnv[wall])
            IN IF base_type = NoneType
               THEN /\ skip_messages' = report_skip_reason(skip_messages, wall,
                                            << Fragment("no wall type", {}) >>)
                    /\ diagnostic_log' = log_diagnostic(diagnostic_log, <<"skip", wall>>)
                    /\ hist' = Step(Step(hist, wall, "Validating"), wall, "Skipped")
                    /\ cur' = cur + 1
                    /\ pc' = "loop"
                    /\ sw' = sw
               ELSE /\ diagnostic_log' = log_diagnostic(diagnostic_log,
                                                        <<"processing starts", wall>>)
                    /\ sw' = NewFrame(wall)
                    /\ pc' = "split_wall"
                    /\ UNCHANGED <<cur, skip_messages, hist>>
    /\ UNCHANGED <<doc, wallEnv, IsModifiable, target_walls, txState, tgState,
                   txSnapshot, tgSnapshot, split_results, layer_type_cache,
                   wall_type_name_map, err, shown, txlog>>

----------------------------------------------------------------------------
(* split_wall *)

Returned(frame) == [frame EXCEPT !.returned = "None"]

(* Validating: the checks of split_wall before anything is touched         *)
(* (lines 456-500) *)
SplitValidate ==
    /\ pc = "split_wall"
    /\ LET wall == sw.wall
           env == wallEnv[wall]
           base_type == try_get_wall_type(doc, env)
           log1 == log_diagnostic(diagnostic_log, <<"collecting data", wall>>)
       IN IF base_type = NoneType
          THEN /\ skip_messages' = report_skip_reason(skip_messages, wall,
                                       << Fragment("no wall type", {}) >>)
               /\ diagnostic_log' = LogAll(log1, << <<"skip", wall>>, <<"no wall type", wall>> >>)
               /\ sw' = Returned(sw)
               /\ hist' = Step(Step(hist, wall, "Validating"), wall, "Skipped")
               /\ pc' = "wall_end"
          ELSE IF Len(base_type.Layers) <= 1
          THEN /\ diagnostic_log' = log_diagnostic(log1, <<"no compound structure", wall>>)
               /\ sw' = Returned(sw)
               /\ hist' = Step(Step(hist, wall, "Validating"), wall, "Skipped")
               /\ pc' = "wall_end"
               /\ UNCHANGED skip_messages
          ELSE IF ~ env.hasCurve
          THEN /\ diagnostic_log' = log_diagnostic(log1, <<"no LocationCurve", wall>>)
               /\ sw' = Returned(sw)
               /\ hist' = Step(Step(hist, wall, "Validating"), wall, "Skipped")
               /\ pc' = "wall_end"
               /\ UNCHANGED skip_messages
          ELSE /\ diagnostic_log' = log1
               /\ hist' = Step(hist, wall, "Validating")
               /\ pc' = "detach"
               /\ UNCHANGED <<sw, skip_messages>>
    /\ UNCHANGED <<doc, wallEnv, IsModifiable, target_walls, cur, txState, tgState,
                   txSnapshot, tgSnapshot, split_results, layer_type_cache,
                   wall_type_name_map, err, shown, txlog>>

(* detach_hosted_family_instances on the wall's dependent family           *)
(* instances (lines 502-505) *)
Detach ==
    /\ pc = "detach"
    /\ LET wall == sw.wall
           hosted_family_ids == HostedFamilyIds(doc, wallEnv[wall])
       IN \E setResults \in [hosted_family_ids -> SetResults] :
             LET r == detach_hosted_family_instances(doc, wall, hosted_family_ids, setResults)
             IN /\ doc' = r.doc
                /\ sw' = [sw EXCEPT !.detached = r.detached, !.failed = r.failed]
    /\ pc' = "gate"
    /\ UNCHANGED <<wallEnv, IsModifiable, target_walls, cur, txState, tgState,
                   txSnapshot, tgSnapshot, split_results, skip_messages, diagnostic_log,
                   layer_type_cache, wall_type_name_map, err, shown, txlog, hist>>

(* Faulty variant of Gate: the gate's answer is not looked at, and the     *)
(* layers are created whatever it is                                       *)
Gate_AnswerIgnored ==
    /\ pc = "gate"
    /\ LET wall == sw.wall
           g == can_delete_original_wall(doc, IsModifiable, wallEnv[wall], Range(sw.detached))
       IN /\ doc' = g.doc
          /\ diagnostic_log' = LogAll(diagnostic_log, g.log)
          /\ sw' = [sw EXCEPT !.can_delete = g.allowed, !.delete_reason = g.reason,
                              !.layerIdx = 1]
          /\ hist' = Step([hist EXCEPT ![wall].gate =
                                          IF g.allowed THEN "allowed" ELSE "blocked"],
                          wall, "Gating")
          /\ pc' = "create"
    /\ UNCHANGED <<wallEnv, IsModifiable, target_walls, cur, txState, tgState,
                   txSnapshot, tgSnapshot, split_results, skip_messages,
                   layer_type_cache, wall_type_name_map, err, shown, txlog>>

(* Gating: can_delete_original_wall, and the skip when it says no          *)
(* (lines 506-525) *)
Gate ==
    /\ pc = "gate"
    /\ LET wall == sw.wall
           g == can_delete_original_wall(doc, IsModifiable, wallEnv[wall], Range(sw.detached))
           delete_reason ==
               IF sw.failed # <<>>
               THEN Append(g.reason, Fragment("detach failed", Range(sw.failed)))
               ELSE g.reason
           log1 == LogAll(diagnostic_log, g.log)
       IN IF ~ g.allowed
          THEN \E setResults \in [Range(sw.detached) -> SetResults] :
                  /\ doc' = restore_family_instances_to_host(g.doc, sw.detached, wall, setResults)
                  /\ skip_messages' = report_skip_reason(skip_messages, wall, delete_reason)
                  /\ diagnostic_log' = LogAll(log1, << <<"skip", wall>>,
                                                      <<"cannot delete original wall", wall>> >>)
                  /\ sw' = Returned([sw EXCEPT !.can_delete = FALSE,
                                               !.delete_reason = delete_reason])
                  /\ hist' = Step(Step([hist EXCEPT ![wall].gate = "blocked",
                                                     ![wall].joins = g.joins,
                                                     ![wall].restoreSet = SetAccepted(setResults)],
                                       wall, "Gating"), wall, "Skipped")
                  /\ pc' = "wall_end"
          ELSE /\ doc' = g.doc
               /\ diagnostic_log' = log1
               /\ sw' = [sw EXCEPT !.can_delete = TRUE, !.layerIdx = 1]
               /\ hist' = Step([hist EXCEPT ![wall].gate = "allowed",
                                             ![wall].joins = g.joins], wall, "Gating")
               /\ pc' = "create"
               /\ UNCHANGED skip_messages
    /\ UNCHANGED <<wallEnv, IsModifiable, target_walls, cur, txState, tgState,
                   txSnapshot, tgSnapshot, split_results, layer_type_cache,
                   wall_type_name_map, err, shown, txlog>>

(* Faulty variant of CreateLayer: when the naming runs out of attempts,    *)
(* split_wall gives up the wall and the batch goes on                      *)
CreateLayer_ExhaustionSkipsWall ==
    /\ pc = "create"
    /\ LET wall == sw.wall
           env == wallEnv[wall]
           base_type == try_get_wall_type(doc, env)
           layers == base_type.Layers
           index == sw.layerIdx - 1
       IN /\ sw.layerIdx <= Len(layers)
          /\ IF layers[sw.layerIdx].Width <= 0
             THEN /\ sw' = [sw EXCEPT !.layerIdx = @ + 1]
                  /\ hist' = Step(hist, wall, "Creating")
                  /\ pc' = "create"
                  /\ UNCHANGED <<doc, layer_type_cache, wall_type_name_map, diagnostic_log>>
             ELSE \E rejected \in RejectChoices :
                  LET layer == layers[sw.layerIdx]
                      t == get_or_create_layer_type(doc, layer_type_cache, wall_type_name_map,
                                                    base_type, layer, index, rejected)
                      offset == LayerOffsetFromReference(base_type, env.locationLine, index)
                      new_wall == [Id |-> t.doc.nextId, TypeId |-> t.typeId,
                                   Offset |-> offset, Source |-> wall, Index |-> index]
                  IN /\ layer_type_cache' = t.cache
                     /\ wall_type_name_map' = t.nm
                     /\ IF t.raised
                        THEN /\ doc' = t.doc
                             /\ diagnostic_log' = LogAll(diagnostic_log,
                                    << <<"layer type", wall>>, <<"attempts exhausted", wall>> >>)
                             /\ hist' = Step(Step(hist, wall, "Creating"), wall, "Failed")
                             /\ pc' = "wall_end"
                             /\ sw' = [sw EXCEPT !.returned = "None"]
                        ELSE /\ doc' = [t.doc EXCEPT !.nextId = @ + 1,
                                                     !.walls = @ \cup {new_wall.Id},
                                                     !.newWalls = @ \cup {new_wall}]
                             /\ diagnostic_log' = LogAll(diagnostic_log,
                                    << <<"layer type", wall>>, <<"layer", wall>> >>)
                             /\ sw' = [sw EXCEPT
                                         !.layerIdx = @ + 1,
                                         !.created = Append(@, new_wall.Id),
                                         !.infos = Append(@, LayerWallInfo(new_wall.Id, layer,
                                                                           index, offset))]
                             /\ hist' = Step(hist, wall, "Creating")
                             /\ pc' = "create"
    /\ UNCHANGED <<wallEnv, IsModifiable, target_walls, cur, txState, tgState, err,
                   txSnapshot, tgSnapshot, split_results, skip_messages, shown, txlog>>

(* Creating: one turn of the loop over the layers (lines 551-580) *)
CreateLayer ==
    /\ pc = "create"
    /\ LET wall == sw.wall
           env == wallEnv[wall]
           base_type == try_get_wall_type(doc, env)
           layers == base_type.Layers
           index == sw.layerIdx - 1
       IN /\ sw.layerIdx <= Len(layers)
          /\ IF layers[sw.layerIdx].Width <= 0
             THEN /\ sw' = [sw EXCEPT !.layerIdx = @ + 1]
                  /\ hist' = Step(hist, wall, "Creating")
                  /\ pc' = "create"
                  /\ UNCHANGED <<doc, layer_type_cache, wall_type_name_map,
                                 diagnostic_log, err>>
             ELSE \E rejected \in RejectChoices :
                  LET layer == layers[sw.layerIdx]
                      t == get_or_create_layer_type(doc, layer_type_cache, wall_type_name_map,
                                                    base_type, layer, index, rejected)
                      offset == LayerOffsetFromReference(base_type, env.locationLine, index)
                      new_wall == [Id |-> t.doc.nextId, TypeId |-> t.typeId,
                                   Offset |-> offset, Source |-> wall, Index |-> index]
                  IN /\ layer_type_cache' = t.cache
                     /\ wall_type_name_map' = t.nm
                     /\ IF t.raised
                        THEN /\ doc' = t.doc
                             /\ diagnostic_log' = LogAll(diagnostic_log,
                                    << <<"layer type", wall>>, <<"attempts exhausted", wall>> >>)
                             /\ err' = "InvalidOperationException: name attempts exhausted"
                             /\ hist' = Step(Step(hist, wall, "Creating"), wall, "Failed")
                             /\ pc' = "except_inner"
                             /\ sw' = sw
                        ELSE /\ doc' = [t.doc EXCEPT !.nextId = @ + 1,
                                                     !.walls = @ \cup {new_wall.Id},
                                                     !.newWalls = @ \cup {new_wall}]
                             /\ diagnostic_log' = LogAll(diagnostic_log,
                                    << <<"layer type", wall>>, <<"layer", wall>> >>)
                             /\ sw' = [sw EXCEPT
                                         !.layerIdx = @ + 1,
                                         !.created = Append(@, new_wall.Id),
                                         !.infos = Append(@, LayerWallInfo(new_wall.Id, layer,
                                                                           index, offset))]
                             /\ hist' = Step(hist, wall, "Creating")
                             /\ pc' = "create"
                             /\ err' = err
    /\ UNCHANGED <<wallEnv, IsModifiable, target_walls, cur, txState, tgState,
                   txSnapshot, tgSnapshot, split_results, skip_messages, shown, txlog>>

(* Faulty variant of CreateEnd: the instances are re-hosted before the     *)
(* original wall is deleted, and the deletion is left out                  *)
CreateEnd_RelocatesFirst ==
    /\ pc = "create"
    /\ sw.layerIdx > Len(try_get_wall_type(doc, wallEnv[sw.wall]).Layers)
    /\ pc' = "rehost"
    /\ UNCHANGED <<doc, wallEnv, IsModifiable, target_walls, cur, txState, tgState,
                   txSnapshot, tgSnapshot, split_results, skip_messages, diagnostic_log,
                   layer_type_cache, wall_type_name_map, sw, err, shown, txlog, hist>>

(* Creating, after the loop: no wall created (lines 582-589) *)
CreateEnd ==
    /\ pc = "create"
    /\ LET wall == sw.wall
           base_type == try_get_wall_type(doc, wallEnv[wall])
       IN /\ sw.layerIdx > Len(base_type.Layers)
          /\ IF sw.created = <<>>
             THEN \E setResults \in [Range(sw.detached) -> SetResults] :
                     /\ shown' = Append(shown, "no walls created")
                     /\ doc' = restore_family_instances_to_host(doc, sw.detached, wall, setResults)
                     /\ diagnostic_log' = log_diagnostic(diagnostic_log,
                                                         <<"no new walls", wall>>)
                     /\ sw' = Returned(sw)
                     /\ hist' = Step([hist EXCEPT ![wall].restoreSet = SetAccepted(setResults)],
                                     wall, "Skipped")
                     /\ pc' = "wall_end"
             ELSE /\ pc' = "delete"
                  /\ UNCHANGED <<shown, doc, diagnostic_log, sw, hist>>
    /\ UNCHANGED <<wallEnv, IsModifiable, target_walls, cur, txState, tgState,
                   txSnapshot, tgSnapshot, split_results, skip_messages,
                   layer_type_cache, wall_type_name_map, err, txlog>>

(* self.doc.Delete(original_wall_id): the wall goes, with the instances   *)
(* it still hosts and its joins *)
DeleteWall(d, wall_id) ==
    [d EXCEPT !.walls = @ \ {wall_id},
              !.host = [i \in {j \in DOMAIN d.host : d.host[j] # wall_id} |-> d.host[i]],
              !.joined = {p \in @ : p[1] # wall_id}]

(* Faulty variant of DeleteOriginal: a deletion that raises makes           *)
(* split_wall restore the instances and return None, and the batch goes on *)
DeleteOriginal_FailureSkipsWall ==
    /\ pc = "delete"
    /\ LET wall == sw.wall
           log1 == log_diagnostic(diagnostic_log, <<"deleting original wall", wall>>)
       IN \E raises \in BOOLEAN :
             IF raises
             THEN \E setResults \in [Range(sw.detached) -> SetResults] :
                     /\ doc' = restore_family_instances_to_host(doc, sw.detached, wall, setResults)
                     /\ hist' = Step(Step([hist EXCEPT ![wall].restoreSet = SetAccepted(setResults)],
                                          wall, "Deleting"), wall, "Skipped")
                     /\ sw' = Returned(sw)
                     /\ pc' = "wall_end"
                     /\ diagnostic_log' = log1
             ELSE /\ doc' = DeleteWall(doc, wall)
                  /\ hist' = Step(hist, wall, "Deleting")
                  /\ pc' = "rehost"
                  /\ diagnostic_log' = log1
                  /\ sw' = sw
    /\ UNCHANGED <<wallEnv, IsModifiable, target_walls, cur, txState, tgState,
                   txSnapshot, tgSnapshot, split_results, skip_messages,
                   layer_type_cache, wall_type_name_map, err, shown, txlog>>

(* Deleting: the original wall is deleted, or the deletion raises          *)
(* (lines 591-617) *)
DeleteOriginal ==
    /\ pc = "delete"
    /\ LET wall == sw.wall
           log1 == log_diagnostic(diagnostic_log, <<"deleting original wall", wall>>)
       IN \E raises \in BOOLEAN :
             IF raises
             THEN \E setResults \in [Range(sw.detached) -> SetResults] :
                     /\ doc' = restore_family_instances_to_host(doc, sw.detached, wall, setResults)
                     /\ err' = "InvalidOperationException: original wall not deleted"
                     /\ hist' = Step(Step([hist EXCEPT ![wall].restoreSet = SetAccepted(setResults)],
                                          wall, "Deleting"), wall, "Failed")
                     /\ pc' = "except_inner"
                     /\ diagnostic_log' = log1
             ELSE /\ doc' = DeleteWall(doc, wall)
                  /\ hist' = Step(hist, wall, "Deleting")
                  /\ pc' = "rehost"
                  /\ diagnostic_log' = log1
                  /\ err' = err
    /\ UNCHANGED <<wallEnv, IsModifiable, target_walls, cur, txState, tgState,
                   txSnapshot, tgSnapshot, split_results, skip_messages,
                   layer_type_cache, wall_type_name_map, sw, shown, txlog>>

(* Relocating: rehost_family_instances on the new layer walls, and the     *)
(* result (lines 619-635) *)
Rehost ==
    /\ pc = "rehost"
    /\ \E setResults \in [Range(sw.detached) -> SetResults] :
          LET r == rehost_family_instances(doc, sw.infos, sw.detached, setResults)
          IN /\ doc' = r.doc
             /\ sw' = [sw EXCEPT !.rehosted = r.rehosted, !.unmatched = r.unmatched,
                                 !.returned = "result"]
    /\ hist' = Step(Step(hist, sw.wall, "Relocating"), sw.wall, "Done")
    /\ pc' = "wall_end"
    /\ UNCHANGED <<wallEnv, IsModifiable, target_walls, cur, txState, tgState,
                   txSnapshot, tgSnapshot, split_results, skip_messages, diagnostic_log,
                   layer_type_cache, wall_type_name_map, err, shown, txlog>>

----------------------------------------------------------------------------
(* execute, after split_wall *)

(* The result of split_wall is kept, and the loop goes on (lines 366-377) *)
WallEnd ==
    /\ pc = "wall_end"
    /\ IF sw.returned = "result"
       THEN /\ split_results' = Append(split_results, WallSplitResult(sw))
            /\ diagnostic_log' = log_diagnostic(diagnostic_log, <<"split done", sw.wall>>)
       ELSE /\ split_results' = split_results
            /\ diagnostic_log' = log_diagnostic(diagnostic_log, <<"not split", sw.wall>>)
    /\ cur' = cur + 1
    /\ pc' = "loop"
    /\ UNCHANGED <<doc, wallEnv, IsModifiable, target_walls, txState, tgState,
                   txSnapshot, tgSnapshot, skip_messages, layer_type_cache,
                   wall_type_name_map, sw, err, shown, txlog, hist>>

(* No wall was split: transaction.RollBack() (lines 379-387) *)
NoResultsRollBack ==
    /\ pc = "after_loop"
    /\ split_results = <<>>
    /\ diagnostic_log' = log_diagnostic(diagnostic_log, <<"nothing split, rolling back", 0>>)
    /\ shown' = Append(shown, "nothing split")
    /\ TransactionRollBack
    /\ txlog' = Append(txlog, "Transaction.RollBack")
    /\ pc' = "no_results_group"
    /\ UNCHANGED <<wallEnv, target_walls, cur, tgState, txSnapshot, tgSnapshot,
                   split_results, skip_messages, layer_type_cache, wall_type_name_map,
                   sw, err, hist>>

(* Faulty variant of NoResultsGroupRollBack: the return without            *)
(* tgroup.RollBack()                                                       *)
NoResultsGroupRollBack_GroupLeftOpen ==
    /\ pc = "no_results_group"
    /\ pc' = "finally_return"
    /\ UNCHANGED <<doc, wallEnv, IsModifiable, target_walls, cur, txState, tgState,
                   txSnapshot, tgSnapshot, split_results, skip_messages, diagnostic_log,
                   layer_type_cache, wall_type_name_map, sw, err, shown, txlog, hist>>

(* No wall was split: tgroup.RollBack() and return (lines 388-389) *)
NoResultsGroupRollBack ==
    /\ pc = "no_results_group"
    /\ GroupRollBack(txlog)
    /\ pc' = "finally_return"
    /\ UNCHANGED <<wallEnv, IsModifiable, target_walls, cur, txState, txSnapshot,
                   tgSnapshot, split_results, skip_messages, diagnostic_log,
                   layer_type_cache, wall_type_name_map, sw, err, shown, hist>>

(* Faulty variant of Commit: the statements after the loop end without    *)
(* transaction.Commit()                                                    *)
Commit_LeftToFinally ==
    /\ pc = "after_loop"
    /\ split_results # <<>>
    /\ pc' = "finally_normal"
    /\ UNCHANGED <<doc, wallEnv, IsModifiable, target_walls, cur, txState, tgState,
                   txSnapshot, tgSnapshot, split_results, skip_messages, diagnostic_log,
                   layer_type_cache, wall_type_name_map, sw, err, shown, txlog, hist>>

(* transaction.Commit() (line 391) *)
Commit ==
    /\ pc = "after_loop"
    /\ split_results # <<>>
    /\ TransactionCommit(doc)
    /\ txlog' = Append(txlog, "Transaction.Commit")
    /\ pc' = "finally_normal"
    /\ UNCHANGED <<wallEnv, target_walls, cur, tgState, txSnapshot, tgSnapshot,
                   split_results, skip_messages, diagnostic_log, layer_type_cache,
                   wall_type_name_map, sw, err, shown, hist>>

(* Faulty variant of ExceptInner: the error is not raised again *)
ExceptInner_NoReraise ==
    /\ pc = "except_inner"
    /\ IF HasStarted
       THEN /\ TransactionRollBack
            /\ txlog' = Append(txlog, "Transaction.RollBack")
       ELSE UNCHANGED <<txState, doc, IsModifiable, txlog>>
    /\ pc' = "finally_normal"
    /\ UNCHANGED <<wallEnv, target_walls, cur, tgState, txSnapshot, tgSnapshot,
                   split_results, skip_messages, diagnostic_log, layer_type_cache,
                   wall_type_name_map, sw, err, shown, hist>>

(* except Exception of the inner try: roll back if started, and raise      *)
(* again (lines 393-397) *)
ExceptInner ==
    /\ pc = "except_inner"
    /\ IF HasStarted
       THEN /\ TransactionRollBack
            /\ txlog' = Append(txlog, "Transaction.RollBack")
       ELSE UNCHANGED <<txState, doc, IsModifiable, txlog>>
    /\ pc' = "finally_raise"
    /\ UNCHANGED <<wallEnv, target_walls, cur, tgState, txSnapshot, tgSnapshot,
                   split_results, skip_messages, diagnostic_log, layer_type_cache,
                   wall_type_name_map, sw, err, shown, hist>>

(* Faulty variant of Finally: the roll back without asking HasStarted *)
Finally_AlwaysRollsBack ==
    /\ pc \in {"finally_return", "finally_raise", "finally_normal"}
    /\ TransactionRollBack
    /\ txlog' = Append(txlog, "Transaction.RollBack")
    /\ pc' = CASE pc = "finally_return" -> "done"
               [] pc = "finally_raise" -> "except_outer"
               [] OTHER -> "assimilate"
    /\ UNCHANGED <<wallEnv, target_walls, cur, tgState, txSnapshot, tgSnapshot,
                   split_results, skip_messages, diagnostic_log, layer_type_cache,
                   wall_type_name_map, sw, err, shown, hist>>

(* finally of the inner try: roll back a transaction that is still         *)
(* started (lines 398-400); then the return, the raise or the next         *)
(* statement goes on *)
Finally ==
    /\ pc \in {"finally_return", "finally_raise", "finally_normal"}
    /\ IF HasStarted
       THEN /\ TransactionRollBack
            /\ txlog' = Append(txlog, "Transaction.RollBack")
       ELSE UNCHANGED <<txState, doc, IsModifiable, txlog>>
    /\ pc' = CASE pc = "finally_return" -> "done"
               [] pc = "finally_raise" -> "except_outer"
               [] OTHER -> "assimilate"
    /\ UNCHANGED <<wallEnv, target_walls, cur, tgState, txSnapshot, tgSnapshot,
                   split_results, skip_messages, diagnostic_log, layer_type_cache,
                   wall_type_name_map, sw, err, shown, hist>>

(* tgroup.Assimilate() (lines 402-403) *)
Assimilate ==
    /\ pc = "assimilate"
    /\ tgState' = "assimilated"
    /\ txlog' = Append(txlog, "TransactionGroup.Assimilate")
    /\ pc' = "summary"
    /\ UNCHANGED <<doc, wallEnv, IsModifiable, target_walls, cur, txState, txSnapshot,
                   tgSnapshot, split_results, skip_messages, diagnostic_log,
                   layer_type_cache, wall_type_name_map, sw, err, shown, hist>>

(* Faulty variant of ExceptOuter: the error dialog without                 *)
(* tgroup.RollBack()                                                       *)
ExceptOuter_NoGroupRollBack ==
    /\ pc = "except_outer"
    /\ shown' = Append(shown, "error")
    /\ pc' = "done"
    /\ UNCHANGED <<doc, wallEnv, IsModifiable, target_walls, cur, txState, tgState,
                   txSnapshot, tgSnapshot, split_results, skip_messages, diagnostic_log,
                   layer_type_cache, wall_type_name_map, sw, err, txlog, hist>>

(* except Exception of the outer try: tgroup.RollBack() and the error      *)
(* dialog (lines 404-413) *)
ExceptOuter ==
    /\ pc = "except_outer"
    /\ tgState = "started"
    /\ GroupRollBack(txlog)
    /\ shown' = Append(shown, "error")
    /\ pc' = "done"
    /\ UNCHANGED <<wallEnv, IsModifiable, target_walls, cur, txState, txSnapshot,
                   tgSnapshot, split_results, skip_messages, diagnostic_log,
                   layer_type_cache, wall_type_name_map, sw, err, hist>>

(* show_summary (line 415) *)
ShowSummary ==
    /\ pc = "summary"
    /\ shown' = Append(shown, "summary")
    /\ pc' = "done"
    /\ UNCHANGED <<doc, wallEnv, IsModifiable, target_walls, cur, txState, tgState,
                   txSnapshot, tgSnapshot, split_results, skip_messages, diagnostic_log,
                   layer_type_cache, wall_type_name_map, sw, err, txlog, hist>>

Next ==
    \/ ExecuteStart
    \/ GroupStart
    \/ TxStart
    \/ LoopHead
    \/ SplitValidate
    \/ Detach
    \/ Gate
    \/ CreateLayer
    \/ CreateEnd
    \/ DeleteOriginal
    \/ Rehost
    \/ WallEnd
    \/ NoResultsRollBack
    \/ NoResultsGroupRollBack
    \/ Commit
    \/ ExceptInner
    \/ Finally
    \/ Assimilate
    \/ ExceptOuter
    \/ ShowSummary

Spec == Init /\ [][Next]_vars

----------------------------------------------------------------------------
(* The deletion gate on its own: split_wall on one wall that passed the    *)
(* checks of Validating, for every combination of the gate's inputs, in a  *)
(* document that is modifiable (inside the transaction) or not.            *)

GateUsers == {"bob", "amy", ""}

InitGate ==
    /\ pc = "detach"
    /\ target_walls = <<1>>
    /\ wallEnv \in {[w \in {1} |-> env] : env \in GateWallEnvs(1)}
    /\ \E workshared \in BOOLEAN, user \in GateUsers :
          doc = InitialDoc(wallEnv, workshared, user)
    /\ IsModifiable \in BOOLEAN
    /\ cur = 1
    /\ txState = IF IsModifiable THEN "started" ELSE "unstarted"
    /\ tgState = IF IsModifiable THEN "started" ELSE "unstarted"
    /\ txSnapshot = doc
    /\ tgSnapshot = doc
    /\ split_results = <<>>
    /\ skip_messages = <<>>
    /\ diagnostic_log = <<>>
    /\ layer_type_cache = <<>>
    /\ wall_type_name_map = [built |-> FALSE, map |-> <<>>]
    /\ sw = NewFrame(1)
    /\ err = "none"
    /\ shown = <<>>
    /\ txlog = <<>>
    /\ hist = [w \in {1} |-> [steps |-> <<"Validating">>, gate |-> "none", restoreSet |-> {},
                               joins |-> NoJoins]]

NextGate ==
    \/ Detach
    \/ Gate

SpecGate == InitGate /\ [][NextGate]_vars

----------------------------------------------------------------------------
(* Properties of the batch command *)

(* The document before the command *)
DocumentBefore == InitialDoc(wallEnv, FALSE, "bob")

Last(s) == s[Len(s)]

(* s ends with the sequence t *)
EndsWith(s, t) ==
    Len(s) >= Len(t) /\ SubSeq(s, Len(s) - Len(t) + 1, Len(s)) = t

(* The original walls that the batch split before the wall at cur *)
SplitBefore == {split_results[k].original_wall_id : k \in 1..Len(split_results)}

(* C1: batch atomicity.  When an error escapes split_wall, the inner       *)
(* transaction is rolled back, the error is raised again to the outer      *)
(* handler, the transaction group is rolled back, and the document then    *)
(* holds no layer wall and no layer type of any wall of the run, and every *)
(* original wall.                                                          *)
C1_BatchAtomicity ==
    (pc = "done" /\ err # "none") =>
        /\ txlog = << "TransactionGroup.Start", "Transaction.Start",
                      "Transaction.RollBack", "TransactionGroup.RollBack" >>
        /\ txState = "rolledback"
        /\ tgState = "rolledback"
        /\ Last(shown) = "error"
        /\ doc.newWalls = {}
        /\ doc.types = BaseTypes
        /\ doc.walls = DOMAIN wallEnv
        /\ doc = DocumentBefore

(* The deletion of the second wall failed after the first wall was split   *)
(* and the layer walls of the second were created.                         *)
C1_Witness ==
    /\ pc = "done"
    /\ err = "InvalidOperationException: original wall not deleted"
    /\ cur = 2
    /\ Len(split_results) = 1
    /\ Len(sw.created) = 2

(* C2: when no wall of the batch gives a WallSplitResult, the inner        *)
(* transaction is rolled back and then the transaction group, neither is   *)
(* committed or assimilated, and the document is as before the command,    *)
(* the detached instances and the unjoined elements of the skipped walls   *)
(* included.                                                               *)
C2_NothingSplitRollsBack ==
    /\ (split_results = <<>> =>
            /\ txState # "committed"
            /\ tgState # "assimilated"
            /\ "Transaction.Commit" \notin Range(txlog)
            /\ "TransactionGroup.Assimilate" \notin Range(txlog))
    /\ (pc = "done" /\ err = "none" /\ split_results = <<>> /\ target_walls # <<>>) =>
            /\ txlog = << "TransactionGroup.Start", "Transaction.Start",
                          "Transaction.RollBack", "TransactionGroup.RollBack" >>
            /\ doc = DocumentBefore
            /\ doc.joined = DocumentBefore.joined
            /\ \A i \in DOMAIN doc.host : doc.host[i] = WallOf(i)

(* No wall was split; a skipped wall had an instance detached and an       *)
(* element unjoined by the gate before the gate said no.                   *)
C2_Witness ==
    /\ pc = "done"
    /\ err = "none"
    /\ split_results = <<>>
    /\ \E w \in DOMAIN wallEnv :
          /\ hist[w].gate = "blocked"
          /\ wallEnv[w].joinCls = "Floor"
          /\ wallEnv[w].Pinned

(* C3: when at least one wall is split and no error escapes, the inner     *)
(* transaction is committed and then the group is assimilated, and neither *)
(* is rolled back.                                                         *)
C3_SuccessCommits ==
    (pc = "done" /\ err = "none" /\ split_results # <<>>) =>
        /\ txlog = << "TransactionGroup.Start", "Transaction.Start",
                      "Transaction.Commit", "TransactionGroup.Assimilate" >>
        /\ txState = "committed"
        /\ tgState = "assimilated"
        /\ \A k \in 1..Len(split_results) :
              split_results[k].original_wall_id \notin doc.walls

(* One wall of two was split, the other was skipped. *)
C3_Witness ==
    /\ pc = "done"
    /\ err = "none"
    /\ Len(split_results) = 1
    /\ Len(target_walls) = 2
    /\ skip_messages # <<>>

----------------------------------------------------------------------------
(* Properties of split_wall *)

StepsOf(w) == hist[w].steps

(* The layer walls of the document that were created for wall w *)
LayerWallsOf(d, w) == {nw \in d.newWalls : nw.Source = w}

(* C4: split_wall creates no layer wall and no layer type for a wall, and  *)
(* does not delete it, before can_delete_original_wall has answered true   *)
(* for that wall; a wall for which it answered false is never deleted and  *)
(* gets no layer wall.                                                     *)
C4_GateBeforeDestructive ==
    [][ /\ \A nw \in doc'.newWalls \ doc.newWalls :
              nw.Source = sw.wall /\ hist[nw.Source].gate = "allowed"
        /\ (doc'.types \ doc.types # {}) =>
              (sw.wall \in DOMAIN hist /\ hist[sw.wall].gate = "allowed")
        /\ \A w \in DOMAIN wallEnv :
              /\ (w \in doc.walls /\ w \notin doc'.walls) =>
                    (w = sw.wall /\ hist[w].gate = "allowed")
              /\ hist'[w].gate = "blocked" =>
                    (w \in doc'.walls /\ LayerWallsOf(doc', w) = {}) ]_vars

(* One wall passed the gate, has its layer walls and is deleted; another   *)
(* was stopped by the gate and is still in the document.                   *)
C4_Witness ==
    \E w, v \in DOMAIN wallEnv :
        /\ hist[w].gate = "allowed"
        /\ w \notin doc.walls
        /\ LayerWallsOf(doc, w) # {}
        /\ hist[v].gate = "blocked"
        /\ v \in doc.walls

GateBlockedReturn ==
    /\ pc = "wall_end"
    /\ hist[sw.wall].gate = "blocked"

(* The skip of the wall is recorded with the gate's aggregated reason, to  *)
(* which the instances that failed to detach are appended                  *)
SkipRecordedWithReason ==
    /\ \E k \in 1..Len(skip_messages) :
          skip_messages[k] = [wall |-> sw.wall, reason |-> sw.delete_reason]
    /\ sw.delete_reason # <<>>
    /\ sw.delete_reason[1].tag # "detach failed"
    /\ IF sw.failed # <<>>
       THEN /\ Len(sw.delete_reason) >= 2
            /\ Last(sw.delete_reason) = Fragment("detach failed", Range(sw.failed))
            /\ \A k \in 1..(Len(sw.delete_reason) - 1) :
                  sw.delete_reason[k].tag # "detach failed"
       ELSE \A k \in 1..Len(sw.delete_reason) : sw.delete_reason[k].tag # "detach failed"

(* C6: when the gate says no, every instance that was detached   *)
(* from the wall is hosted by the wall again when split_wall returns, and  *)
(* the skip is recorded with the aggregated reason and the failed          *)
(* detaches.                                                               *)
C6_AllDetachedHostedAgain ==
    GateBlockedReturn =>
        /\ \A i \in Range(sw.detached) : doc.host[i] = sw.wall
        /\ SkipRecordedWithReason

(* What split_wall does when the gate says no: the restore is tried for    *)
(* every detached instance and its outcome is dropped, so an instance is   *)
(* hosted by the wall again exactly when Parameter.Set accepts the wall as *)
(* its host, and it stays without a host otherwise; the skip is recorded   *)
(* with the aggregated reason and the failed detaches.                     *)
RestoreIsBestEffort ==
    GateBlockedReturn =>
        /\ \A i \in Range(sw.detached) :
              doc.host[i] = IF i \in hist[sw.wall].restoreSet
                            THEN sw.wall ELSE InvalidElementId
        /\ \A i \in Range(sw.failed) : doc.host[i] = sw.wall
        /\ SkipRecordedWithReason

(* The gate said no, and Parameter.Set did not accept the wall as the host *)
(* of the detached instance again                                          *)
RestoreFailed ==
    /\ GateBlockedReturn
    /\ sw.detached # <<>>
    /\ \A i \in Range(sw.detached) : doc.host[i] = InvalidElementId

----------------------------------------------------------------------------
(* Properties of the deletion gate, under SpecGate *)

(* The blocking conditions that hold for the wall, by the tags of their    *)
(* reasons: what the document says, whatever the gate makes of it          *)
TrueConditions(env, d, modifiable) ==
    LET owner == Lower(Strip(env.owner))
        user == Lower(Strip(d.Username))
    IN {c \in {"join", "readonly", "owner", "workset", "pinned", "group",
               "option", "assembly", "parts", "phase"} :
          CASE c = "join" -> env.joinCls # "none"
                             /\ (env.joinCls \notin {"Wall", "Floor"}
                                 \/ env.joinUnjoin = "fails")
            [] c = "readonly" -> ~ modifiable
            [] c = "owner" -> d.IsWorkshared /\ owner # "" /\ owner # user
            [] c = "workset" -> d.IsWorkshared /\ ~ env.worksetEditable
            [] c = "pinned" -> env.Pinned
            [] c = "group" -> env.GroupId # InvalidElementId
            [] c = "option" -> env.DesignOptionId \notin {InvalidElementId, d.ActiveDesignOptionId}
            [] c = "assembly" -> env.AssemblyInstanceId # InvalidElementId
            [] c = "parts" -> env.HasParts
            [] OTHER -> env.PhaseCreated # InvalidElementId
                        /\ d.ActivePhaseId \notin {InvalidElementId, env.PhaseCreated}}

(* The gate has answered for the wall *)
GateAnswered == pc \in {"create", "wall_end"} /\ hist[sw.wall].gate # "none"

(* The fragments of the gate's reason, without the one split_wall appends *)
GateFragments == SelectSeq(sw.delete_reason, LAMBDA f : f.tag # "detach failed")

(* The dependent elements that are left with the wall *)
BlockingDependentExists ==
    LET env == wallEnv[sw.wall]
        unjoined == IF IsModifiable /\ env.joinCls \in {"Wall", "Floor"}
                       /\ env.joinUnjoin # "fails"
                    THEN {JoinedOf(sw.wall)} ELSE {}
    IN env.otherDeps \ unjoined # {} \/ sw.failed # <<>>

(* The gate's answer and reason for the conditions in expected: false when *)
(* one holds, true when none holds and no dependent blocks, and a reason   *)
(* with exactly one fragment for each of them                              *)
GateAnswerFor(expected) ==
    LET conditionFragments == SelectSeq(GateFragments, LAMBDA f : f.tag # "dependents")
    IN /\ sw.can_delete <=> (expected = {} /\ ~ BlockingDependentExists)
       /\ (hist[sw.wall].gate = "allowed") <=> sw.can_delete
       /\ {conditionFragments[k].tag : k \in 1..Len(conditionFragments)} = expected
       /\ Len(conditionFragments) = Cardinality(expected)
       /\ Len(GateFragments) - Len(conditionFragments)
             = IF expected = {} /\ BlockingDependentExists THEN 1 ELSE 0

----------------------------------------------------------------------------
(* Failed detaches and name exhaustion *)

(* Nothing but its hosted instance stands in the way of the wall's split *)
NoOtherBlockingCondition(w) ==
    /\ TrueConditions(wallEnv[w], doc, TRUE) = {}
    /\ wallEnv[w].otherDeps = {}
    /\ wallEnv[w].typeId \in {TypeIds.compound, TypeIds.compound3}

(* C8: an instance that could not be detached does not block the split:    *)
(* when nothing else blocks, split_wall creates the layer walls, deletes   *)
(* the original and returns a result whose failed-detach list holds the    *)
(* instance.                                                               *)
C8_FailedDetachDoesNotBlock ==
    (pc = "wall_end" /\ sw.failed # <<>> /\ NoOtherBlockingCondition(sw.wall)) =>
        /\ sw.returned = "result"
        /\ sw.created # <<>>
        /\ sw.wall \notin doc.walls
        /\ WallSplitResult(sw).failed_detach_instance_ids = sw.failed

(* The naming of a layer type of wall w ran out of attempts *)
NameExhaustedAt(w) ==
    /\ Len(StepsOf(w)) >= 2
    /\ SubSeq(StepsOf(w), Len(StepsOf(w)) - 1, Len(StepsOf(w))) = <<"Creating", "Failed">>

(* C9: when the naming of a layer type runs out of its 50 attempts, the    *)
(* error leaves the processing of the walls and the whole batch is rolled  *)
(* back, the inner transaction and the group, so that no wall or type      *)
(* created in the run remains, those of the walls split before included.   *)
C9_NameExhaustionRollsBackBatch ==
    err = "InvalidOperationException: name attempts exhausted" =>
        /\ pc \in {"except_inner", "finally_raise", "except_outer", "done"}
        /\ pc \in {"finally_raise", "except_outer", "done"} =>
              (txState = "rolledback" /\ Last(txlog) # "Transaction.Commit"
               /\ doc = txSnapshot)
        /\ pc = "done" =>
              /\ EndsWith(txlog, <<"Transaction.RollBack", "TransactionGroup.RollBack">>)
              /\ tgState = "rolledback"
              /\ doc.newWalls = {}
              /\ doc.types = BaseTypes
              /\ SplitBefore \subseteq doc.walls

(* The naming ran out for the second wall, after the first was split. *)
C9_Witness ==
    /\ pc = "done"
    /\ err = "InvalidOperationException: name attempts exhausted"
    /\ Len(split_results) = 1
    /\ cur = 2

(* C10 as stated: running out of naming attempts aborts the split of the   *)
(* current wall only: the walls after it are still processed and the       *)
(* splits before it are still committed.                                   *)
C10_ExhaustionAbortsWallOnly ==
    \A w \in DOMAIN hist :
        (pc = "done" /\ NameExhaustedAt(w)) =>
            /\ \A v \in DOMAIN hist : v > w => StepsOf(v) # <<>>
            /\ SplitBefore # {} => "Transaction.Commit" \in Range(txlog)
            /\ SplitBefore \cap doc.walls = {}

(* C10, amended: running out of naming attempts aborts the split of the    *)
(* current wall and the batch: the walls after it are not processed, and   *)
(* nothing is committed, the splits before it being rolled back.           *)
C10_ExhaustionAbortsBatch ==
    \A w \in DOMAIN hist :
        NameExhaustedAt(w) =>
            /\ \A v \in DOMAIN hist : v > w => StepsOf(v) = <<>>
            /\ sw.wall = w
            /\ "Transaction.Commit" \notin Range(txlog)
            /\ "TransactionGroup.Assimilate" \notin Range(txlog)
            /\ pc = "done" => SplitBefore \subseteq doc.walls

(* The naming ran out for the first wall of two; the second was never      *)
(* looked at.                                                              *)
C10_Witness ==
    /\ pc = "done"
    /\ Len(target_walls) = 2
    /\ NameExhaustedAt(1)
    /\ StepsOf(2) = <<>>

----------------------------------------------------------------------------
(* Type names as text.  The batch command above carries a type name by    *)
(* its parts; here a name is the sequence of its characters, so that the   *)
(* sanitising, the truncation and the " (k)" suffix are computed as the    *)
(* code computes them.  A character is a one-character string, or the name *)
(* of a character that cannot be written: "TAB" (code 9) and "DEL" (code   *)
(* 127).                                                                   *)

MAX_LAYER_TYPE_NAME_LENGTH == 200
SAFE_LAYER_TYPE_BASE_NAME_LENGTH == 60

(* invalid_chars of make_valid_wall_type_name *)
invalid_chars ==
    {":", ";", "{", "}", "[", "]", "|", "\\", "/", "<", ">", "?", "*", "\""}

(* The characters with ord(char) < 32 *)
CodeBelow32 == {"TAB"}

(* The characters str.strip() removes and \s matches *)
Whitespace == {" ", "TAB"}

(* The control characters: the codes below 32 and 127 *)
ControlCharacters == {"TAB", "DEL"}

(* fallback_name of make_valid_wall_type_name, eight characters with a     *)
(* space in the middle, written in Latin letters                           *)
FallbackName == <<"T", "i", "p", " ", "s", "l", "o", "y">>

(* s[:n] *)
Prefix(s, n) == SubSeq(s, 1, IF n < Len(s) THEN n ELSE Len(s))

(* str.lstrip(), str.rstrip(), str.strip() *)
LStripText(s) ==
    LET kept == {k \in 1..Len(s) : s[k] \notin Whitespace}
    IN IF kept = {} THEN <<>>
       ELSE SubSeq(s, CHOOSE k \in kept : \A j \in kept : k <= j, Len(s))

RStripText(s) ==
    LET kept == {k \in 1..Len(s) : s[k] \notin Whitespace}
    IN IF kept = {} THEN <<>>
       ELSE SubSeq(s, 1, CHOOSE k \in kept : \A j \in kept : j <= k)

StripText(s) == RStripText(LStripText(s))

(* re.sub(r"\s+", " ", s): every run of whitespace becomes one space; the  *)
(* whitespace after the first of a run is marked "" and left out           *)
CollapseWhitespace(s) ==
    LET marked == [k \in 1..Len(s) |->
                      IF s[k] \notin Whitespace THEN s[k]
                      ELSE IF k > 1 /\ s[k - 1] \in Whitespace THEN "" ELSE " "]
    IN SelectSeq(marked, LAMBDA char : char # "")

(* str.lower() of a text: the letters of the model with an upper case *)
LowerChar(c) == CASE c = "A" -> "a" [] c = "B" -> "b" [] OTHER -> c
LowerText(s) == [k \in 1..Len(s) |-> LowerChar(s[k])]

(* Faulty variant of make_valid_wall_type_name: an illegal character is dropped *)
make_valid_wall_type_name_DropsIllegal(raw_name, max_length) ==
    LET trimmed == IF StripText(raw_name) = <<>> THEN FallbackName ELSE StripText(raw_name)
        sanitized == StripText(CollapseWhitespace(
                         SelectSeq(trimmed, LAMBDA char :
                             ~ (char \in CodeBelow32 \/ char \in invalid_chars))))
        named == IF sanitized = <<>> THEN FallbackName ELSE sanitized
        cut == IF max_length # 0 /\ Len(named) > max_length
               THEN RStripText(Prefix(named, max_length))
               ELSE named
    IN IF cut = <<>> THEN FallbackName ELSE cut

(* make_valid_wall_type_name(raw_name, max_length) *)
make_valid_wall_type_name(raw_name, max_length) ==
    LET trimmed == IF StripText(raw_name) = <<>> THEN FallbackName ELSE StripText(raw_name)
        sanitized_chars == [k \in 1..Len(trimmed) |->
                               IF trimmed[k] \in CodeBelow32 \/ trimmed[k] \in invalid_chars
                               THEN "_" ELSE trimmed[k]]
        sanitized == StripText(CollapseWhitespace(sanitized_chars))
        named == IF sanitized = <<>> THEN FallbackName ELSE sanitized
        cut == IF max_length # 0 /\ Len(named) > max_length
               THEN RStripText(Prefix(named, max_length))
               ELSE named
    IN IF cut = <<>> THEN FallbackName ELSE cut

(* prepare_layer_type_base_name *)
prepare_layer_type_base_name(desired_name) ==
    make_valid_wall_type_name(StripText(desired_name), SAFE_LAYER_TYPE_BASE_NAME_LENGTH)

(* "{}".format(attempt) for an attempt of at most two digits *)
DigitChars == <<"0", "1", "2", "3", "4", "5", "6", "7", "8", "9">>
FormatNumber(n) ==
    IF n < 10 THEN <<DigitChars[n + 1]>>
    ELSE <<DigitChars[(n \div 10) + 1], DigitChars[(n % 10) + 1]>>

(* build_candidate_layer_type_name on text *)
CandidateText(base_name, attempt) ==
    IF attempt <= 1 THEN base_name
    ELSE LET suffix == <<" ", "(">> \o FormatNumber(attempt) \o <<")">>
             max_base_length == IF MAX_LAYER_TYPE_NAME_LENGTH - Len(suffix) > 1
                                THEN MAX_LAYER_TYPE_NAME_LENGTH - Len(suffix) ELSE 1
             trimmed == IF RStripText(Prefix(base_name, max_base_length)) = <<>>
                        THEN Prefix(base_name, max_base_length)
                        ELSE RStripText(Prefix(base_name, max_base_length))
         IN trimmed \o suffix

(* normalize_wall_type_name on text: (name or "").strip().lower() *)
NormalizeText(name) == LowerText(StripText(name))

(* The candidate name of an attempt, lines 697-701 *)
CandidateName(base_name, attempt) ==
    make_valid_wall_type_name(CandidateText(base_name, attempt), MAX_LAYER_TYPE_NAME_LENGTH)

(* Faulty variant of DuplicateWithSafeNameText: the name map is not consulted *)
DuplicateWithSafeNameText_IgnoresNameMap(name_keys, desired_name, rejected) ==
    LET base_name == prepare_layer_type_base_name(desired_name)
        free == {k \in 1..MAX_LAYER_TYPE_NAME_ATTEMPTS : k \notin rejected}
        last == IF free = {} THEN MAX_LAYER_TYPE_NAME_ATTEMPTS
                ELSE CHOOSE k \in free : \A j \in free : k <= j
    IN [raised |-> free = {},
        attempt |-> IF free = {} THEN 0 ELSE last,
        name |-> IF free = {} THEN <<>> ELSE CandidateName(base_name, last),
        tried |-> [k \in 1..last |-> CandidateName(base_name, k)]]

(* duplicate_wall_type_with_safe_name on text.  name_keys: the keys of the *)
(* name map; rejected: the attempts for which WallType.Duplicate raises    *)
(* ArgumentException.  The answer is the attempt that yielded the type and *)
(* its name, or raised, with the candidate names of the attempts made.     *)
DuplicateWithSafeNameText(name_keys, desired_name, rejected) ==
    LET base_name == prepare_layer_type_base_name(desired_name)
        free == {k \in 1..MAX_LAYER_TYPE_NAME_ATTEMPTS :
                    /\ NormalizeText(CandidateName(base_name, k)) \notin name_keys
                    /\ k \notin rejected}
        last == IF free = {} THEN MAX_LAYER_TYPE_NAME_ATTEMPTS
                ELSE CHOOSE k \in free : \A j \in free : k <= j
    IN [raised |-> free = {},
        attempt |-> IF free = {} THEN 0 ELSE last,
        name |-> IF free = {} THEN <<>> ELSE CandidateName(base_name, last),
        tried |-> [k \in 1..last |-> CandidateName(base_name, k)]]

----------------------------------------------------------------------------
(* The naming functions on their own: one call of                          *)
(* make_valid_wall_type_name or of duplicate_wall_type_with_safe_name, for *)
(* every short text over Chars and some long ones.  sw holds the arguments *)
(* of the call and, after it, its result.                                  *)

MaxRawLen == 4
MaxDesiredLen == 3
ShortNameLength == 3

Chars == {"a", "B", " ", "TAB", ":", "DEL"}

Texts(n) == UNION {[1..k -> Chars] : k \in 0..n}

Repeat(c, n) == [k \in 1..n |-> c]

(* Names longer than SAFE_LAYER_TYPE_BASE_NAME_LENGTH: one cut inside a     *)
(* word, one cut after a space                                             *)
LongNames ==
    { Repeat("a", SAFE_LAYER_TYPE_BASE_NAME_LENGTH + 10),
      Repeat("a", SAFE_LAYER_TYPE_BASE_NAME_LENGTH - 1) \o <<" ", "B", ":">> }

(* The attempts whose names are in the name map before the call *)
TakenChoices ==
    {{}, {1}, {1, 2}, {1, 3}, 1..(MAX_LAYER_TYPE_NAME_ATTEMPTS - 1),
     1..MAX_LAYER_TYPE_NAME_ATTEMPTS}

(* The attempts for which WallType.Duplicate raises *)
DuplicateRejects == {{}, {2}, 1..MAX_LAYER_TYPE_NAME_ATTEMPTS}

(* A command object with no batch running *)
InitCall ==
    /\ target_walls = <<>>
    /\ wallEnv = <<>>
    /\ doc = InitialDoc(wallEnv, FALSE, "bob")
    /\ IsModifiable = FALSE
    /\ cur = 0
    /\ txState = "unstarted"
    /\ tgState = "unstarted"
    /\ txSnapshot = doc
    /\ tgSnapshot = doc
    /\ split_results = <<>>
    /\ skip_messages = <<>>
    /\ diagnostic_log = <<>>
    /\ layer_type_cache = <<>>
    /\ wall_type_name_map = [built |-> FALSE, map |-> <<>>]
    /\ err = "none"
    /\ shown = <<>>
    /\ txlog = <<>>
    /\ hist = <<>>

CallUnchanged ==
    UNCHANGED <<doc, wallEnv, IsModifiable, target_walls, cur, txState, tgState,
                txSnapshot, tgSnapshot, split_results, skip_messages, diagnostic_log,
                layer_type_cache, wall_type_name_map, err, shown, txlog, hist>>

InitNames ==
    /\ pc = "call"
    /\ InitCall
    /\ \/ \E raw_name \in Texts(MaxRawLen) \cup LongNames,
             max_length \in (1..ShortNameLength) \cup {SAFE_LAYER_TYPE_BASE_NAME_LENGTH} :
             sw = [fn |-> "make_valid_wall_type_name",
                   raw_name |-> raw_name, max_length |-> max_length]
       \/ \E desired_name \in Texts(MaxDesiredLen) \cup LongNames,
             taken \in TakenChoices, rejected \in DuplicateRejects :
             sw = [fn |-> "duplicate_wall_type_with_safe_name",
                   desired_name |-> desired_name,
                   name_keys |-> {NormalizeText(CandidateName(
                                     prepare_layer_type_base_name(desired_name), k)) :
                                  k \in taken},
                   rejected |-> rejected]

MakeValidName ==
    /\ pc = "call"
    /\ sw.fn = "make_valid_wall_type_name"
    /\ pc' = "return"
    /\ sw' = [fn |-> sw.fn, raw_name |-> sw.raw_name, max_length |-> sw.max_length,
              result |-> make_valid_wall_type_name(sw.raw_name, sw.max_length)]
    /\ CallUnchanged

DuplicateWithSafeName ==
    /\ pc = "call"
    /\ sw.fn = "duplicate_wall_type_with_safe_name"
    /\ pc' = "return"
    /\ sw' = [fn |-> sw.fn, desired_name |-> sw.desired_name,
              name_keys |-> sw.name_keys, rejected |-> sw.rejected,
              result |-> DuplicateWithSafeNameText(sw.name_keys, sw.desired_name,
                                                   sw.rejected)]
    /\ CallUnchanged

NextNames ==
    \/ MakeValidName
    \/ DuplicateWithSafeName

SpecNames == InitNames /\ [][NextNames]_vars

----------------------------------------------------------------------------
(* Properties of the naming functions *)

NamesReturned(fn) == pc = "return" /\ sw.fn = fn

NonWhitespace(s) == SelectSeq(s, LAMBDA char : char \notin Whitespace)

IsPrefixOf(s, t) == Len(s) <= Len(t) /\ s = SubSeq(t, 1, Len(s))

(* The name of attempt k as the retry scheme states it *)
AttemptName(base_name, k) ==
    IF k = 1 THEN base_name
    ELSE base_name \o <<" ", "(">> \o FormatNumber(k) \o <<")">>

C13_AllIllegalGivesFallback ==
    ( /\ NamesReturned("make_valid_wall_type_name")
      /\ sw.raw_name # <<>>
      /\ \A k \in 1..Len(sw.raw_name) :
             sw.raw_name[k] \in invalid_chars \cup ControlCharacters
      /\ sw.max_length >= Len(FallbackName) )
    => sw.result = FallbackName

(* C13, amended: a non-empty input of characters of invalid_chars only     *)
(* yields as many "_" as it has characters, cut to max_length, and not the *)
(* fallback name; an input that is empty or all whitespace yields the      *)
(* fallback name, cut to max_length.                                       *)
C13_AllIllegalGivesUnderscores ==
    NamesReturned("make_valid_wall_type_name") =>
        /\ ( /\ sw.raw_name # <<>>
             /\ \A k \in 1..Len(sw.raw_name) : sw.raw_name[k] \in invalid_chars )
           => /\ sw.result = Repeat("_", IF Len(sw.raw_name) < sw.max_length
                                         THEN Len(sw.raw_name) ELSE sw.max_length)
              /\ sw.result # FallbackName
        /\ (\A k \in 1..Len(sw.raw_name) : sw.raw_name[k] \in Whitespace)
           => sw.result = RStripText(Prefix(FallbackName, sw.max_length))

C13_Witness ==
    /\ NamesReturned("make_valid_wall_type_name")
    /\ sw.raw_name = <<":", ":">>
    /\ sw.max_length = SAFE_LAYER_TYPE_BASE_NAME_LENGTH
    /\ sw.result = <<"_", "_">>

(* C14 as stated: the result of make_valid_wall_type_name is not empty,    *)
(* holds no illegal and no control character, has no whitespace at its     *)
(* ends and no two whitespace characters in a row, has at most max_length  *)
(* characters, and its characters other than whitespace are, in order, the *)
(* input's with each illegal or control character replaced by "_" (up to   *)
(* truncation).                                                            *)
C14_ResultIsValidName ==
    NamesReturned("make_valid_wall_type_name") =>
        LET result == sw.result
            replaced == [k \in 1..Len(sw.raw_name) |->
                            IF sw.raw_name[k] \in invalid_chars \cup ControlCharacters
                            THEN "_" ELSE sw.raw_name[k]]
        IN /\ result # <<>>
           /\ \A k \in 1..Len(result) :
                  result[k] \notin invalid_chars \cup ControlCharacters
           /\ result[1] \notin Whitespace
           /\ result[Len(result)] \notin Whitespace
           /\ \A k \in 1..(Len(result) - 1) :
                  ~ (result[k] \in Whitespace /\ result[k + 1] \in Whitespace)
           /\ Len(result) <= sw.max_length
           /\ NonWhitespace(replaced) # <<>>
                 => IsPrefixOf(NonWhitespace(result), NonWhitespace(replaced))

----------------------------------------------------------------------------
(* Properties of the layer types of a run *)

(* The layer walls of the document with the cache key of their type: the   *)
(* base type of their source wall and the layer they stand for             *)
LayerTypeKeyOf(new_wall) ==
    LET base_type == GetType(doc, wallEnv[new_wall.Source].typeId)
    IN build_layer_type_key(base_type.Id, base_type.Layers[new_wall.Index + 1],
                            new_wall.Index)

(* C12: within one run, the layer walls made for the same base type and    *)
(* the same layer (material, index, width) have the same wall type, also   *)
(* when they come from different source walls, and the document holds at  *)
(* most one layer type per such key: a repeated call duplicates no type.   *)
C12_IdempotentTypeReuse ==
    /\ \A a, b \in doc.newWalls :
           LayerTypeKeyOf(a) = LayerTypeKeyOf(b) => a.TypeId = b.TypeId
    /\ Cardinality(doc.types \ BaseTypes)
           <= Cardinality({LayerTypeKeyOf(a) : a \in doc.newWalls})

(* Two walls of the same type, both with their layer walls *)
C12_Witness ==
    \E a, b \in doc.newWalls :
        /\ a.Source # b.Source
        /\ LayerTypeKeyOf(a) = LayerTypeKeyOf(b)
        /\ a.TypeId = b.TypeId
        /\ Cardinality(doc.types \ BaseTypes) = 2
        /\ Cardinality(doc.newWalls) = 4

----------------------------------------------------------------------------
(* Properties of the walls that are not split *)

(* Wall w was left out by the checks of Validating *)
SkippedAtValidation(w) == hist[w].steps = <<"Validating", "Skipped">>

(* C18 as stated: every wall skipped at validation has a message with a    *)
(* reason in skip_messages (and the loop goes on to the next wall).        *)
C18_ValidationSkipRecorded ==
    \A w \in DOMAIN hist :
        SkippedAtValidation(w) =>
            \E k \in 1..Len(skip_messages) :
                skip_messages[k].wall = w /\ skip_messages[k].reason # <<>>

DeletionFailed == err = "InvalidOperationException: original wall not deleted"

(* The deletion of wall w raised, and the transaction is still open *)
DeletionRaisedAt(w) ==
    /\ "Deleting" \in Range(hist[w].steps)
    /\ w \in doc.walls
    /\ txState = "started"

(* C19: when the deletion of the original wall raises, the detached        *)
(* instances whose host parameter accepts the wall's id are hosted by the  *)
(* wall again, an InvalidOperationException propagates, split_wall yields  *)
(* no result for the wall, no later wall is processed, and the command     *)
(* ends with the error dialog and the document of before.                  *)
C19_DeletionFailureIsFatal ==
    /\ \A w \in DOMAIN hist :
           DeletionRaisedAt(w) =>
               /\ DeletionFailed
               /\ sw.wall = w
               /\ \A i \in hist[w].restoreSet : i \in DOMAIN doc.host /\ doc.host[i] = w
    /\ DeletionFailed =>
           /\ sw.returned = "running"
           /\ \A k \in 1..Len(split_results) : split_results[k].original_wall_id # sw.wall
           /\ \A k \in 1..Len(target_walls) : k > cur => hist[target_walls[k]].steps = <<>>
           /\ pc \in {"except_inner", "finally_raise", "except_outer", "done"}
           /\ pc = "done" => Last(shown) = "error" /\ doc = DocumentBefore

(* The deletion of wall 1 raised after its instance was detached, the      *)
(* instance is on the wall again, and wall 2 waits                         *)
C19_Witness ==
    /\ Len(target_walls) = 2
    /\ DeletionRaisedAt(1)
    /\ DeletionFailed
    /\ hist[1].restoreSet = {InstanceOf(1)}
    /\ doc.host[InstanceOf(1)] = 1
    /\ hist[2].steps = <<>>

----------------------------------------------------------------------------
(* The geometry of the layers on its own: the offsets of the layers of a   *)
(* compound structure for a location line, and the layer chosen for a      *)
(* family instance.  sw holds the arguments of the call and, after it, its *)
(* result.                                                                 *)

MaxLayers == 3

(* The layers a structure is made of: widths of 0, 0.1 and 0.2 ft *)
LayerChoices ==
    { Layer(0, "Membrane", 53), Layer(200000, "Finish1", 51),
      Layer(200000, "Structure", 52), Layer(400000, "Finish1", 51),
      Layer(400000, "Structure", 52) }

(* GetFirstCoreLayerIndex / GetLastCoreLayerIndex of a structure of n      *)
(* layers: no core (-1), or a run of layers                                *)
CoreChoices(n) ==
    {<<-1, -1>>, <<-1, 0>>, <<0, -1>>}
       \cup {c \in (0..(n - 1)) \X (0..(n - 1)) : c[1] <= c[2]}
       \cup (IF n > 1 THEN {<<n - 1, 0>>} ELSE {})

Structures ==
    UNION { { [Layers |-> layers, FirstCore |-> c[1], LastCore |-> c[2]] :
              layers \in [1..n -> LayerChoices], c \in CoreChoices(n) } :
            n \in 1..MaxLayers }

(* WALL_KEY_REF_PARAM: the six location lines and a value that is none *)
LocationLineValues == 0..6

(* Where an instance sits across the wall, or no offset at all *)
InstancePositions ==
    { [param |-> "writable", hasOffset |-> FALSE, offset |-> 0] }
    \cup { [param |-> "writable", hasOffset |-> TRUE, offset |-> o] :
           o \in {0, 2, 3, 100000, -100000, 200000, 300002, 300003, -300002, -300003} }

(* The layer walls of split_wall's loop (lines 551-580): one per layer of  *)
(* positive width, at its offset from the reference line                   *)
RECURSIVE LayerInfosFrom(_, _, _)
LayerInfosFrom(structure, location_line, index) ==
    IF index >= Len(structure.Layers) THEN <<>>
    ELSE LET layer == structure.Layers[index + 1]
             rest == LayerInfosFrom(structure, location_line, index + 1)
         IN IF layer.Width <= 0 THEN rest
            ELSE << LayerWallInfo(100 + index, layer, index,
                                  LayerOffsetFromReference(structure, location_line, index)) >>
                 \o rest

InitGeometry ==
    /\ pc = "call"
    /\ InitCall
    /\ \/ \E structure \in Structures, location_line \in LocationLineValues :
             sw = [fn |-> "layer_offsets", structure |-> structure,
                   location_line |-> location_line]
       \/ \E structure \in {s \in Structures : s.FirstCore = -1},
             location_line \in {0, 2}, inst \in InstancePositions :
             sw = [fn |-> "select_layer_for_instance", structure |-> structure,
                   location_line |-> location_line, inst |-> inst]

(* calculate_layer_center_offset and the offset from the reference line,   *)
(* for every layer (lines 542-546, 561-562) *)
LayerOffsets ==
    /\ pc = "call"
    /\ sw.fn = "layer_offsets"
    /\ pc' = "return"
    /\ LET layers == sw.structure.Layers
           exterior_face_offset == calculate_total_thickness(layers) \div 2
       IN sw' = [fn |-> sw.fn, structure |-> sw.structure,
                 location_line |-> sw.location_line,
                 reference |-> calculate_reference_offset(
                                  sw.structure, layers,
                                  resolve_wall_location_line(sw.location_line),
                                  exterior_face_offset),
                 center |-> [k \in 1..Len(layers) |->
                                calculate_layer_center_offset(layers, k - 1,
                                                              exterior_face_offset)],
                 final |-> [k \in 1..Len(layers) |->
                               LayerOffsetFromReference(sw.structure, sw.location_line,
                                                        k - 1)]]
    /\ CallUnchanged

(* select_layer_for_instance on the layer walls of the structure *)
SelectLayer ==
    /\ pc = "call"
    /\ sw.fn = "select_layer_for_instance"
    /\ pc' = "return"
    /\ LET layer_infos == LayerInfosFrom(sw.structure, sw.location_line, 0)
       IN sw' = [fn |-> sw.fn, structure |-> sw.structure,
                 location_line |-> sw.location_line, inst |-> sw.inst,
                 layer_infos |-> layer_infos,
                 selected |-> select_layer_for_instance(sw.inst, layer_infos)]
    /\ CallUnchanged

NextGeometry ==
    \/ LayerOffsets
    \/ SelectLayer

SpecGeometry == InitGeometry /\ [][NextGeometry]_vars

----------------------------------------------------------------------------
(* Properties of the geometry of the layers *)

GeometryReturned(fn) == pc = "return" /\ sw.fn = fn

(* C15: with T the total of the widths, the centre offset of layer i is    *)
(* T/2 - (the widths before i + width_i/2); on the wall centerline (also   *)
(* for a location-line value that is none of the six) the final offset is  *)
(* that value, so the exterior-most layer is at T/2 - width_0/2 and the    *)
(* interior-most at -(T/2 - width_last/2).  Stated on doubled lengths.     *)
C15_OffsetCorrectness ==
    GeometryReturned("layer_offsets") =>
        LET layers == sw.structure.Layers
            n == Len(layers)
            T == SumWidths(layers, n)
        IN /\ \A i \in 1..n :
                  2 * sw.center[i] = T - (2 * SumWidths(layers, i - 1) + layers[i].Width)
           /\ \A i \in 1..(n - 1) :
                  2 * (sw.center[i] - sw.center[i + 1])
                      = layers[i].Width + layers[i + 1].Width
           /\ sw.location_line \notin 1..5 =>
                  /\ sw.final = sw.center
                  /\ 2 * sw.final[1] = T - layers[1].Width
                  /\ 2 * sw.final[n] = - (T - layers[n].Width)

(* Three layers of different widths on the wall centerline *)
C15_Witness ==
    /\ GeometryReturned("layer_offsets")
    /\ sw.location_line = 0
    /\ Len(sw.structure.Layers) = 3
    /\ sw.structure.Layers[1].Width = 200000
    /\ sw.structure.Layers[2].Width = 400000
    /\ sw.structure.Layers[3].Width = 200000
    /\ sw.final = <<300000, 0, -300000>>

(* C16: for a layer sequence, the difference between the final offsets of  *)
(* any two layers is the same under each of the six location lines: it is  *)
(* the difference of their centre offsets.                                 *)
C16_ReferenceModeInvariance ==
    GeometryReturned("layer_offsets") =>
        \A i, j \in 1..Len(sw.structure.Layers) :
            /\ sw.final[i] - sw.final[j] = sw.center[i] - sw.center[j]
            /\ \A mode \in 0..5 :
                   LayerOffsetFromReference(sw.structure, mode, i - 1)
                     - LayerOffsetFromReference(sw.structure, mode, j - 1)
                   = sw.final[i] - sw.final[j]

(* A structure with a core, on the core centerline, whose offsets are not  *)
(* those of the wall centerline *)
C16_Witness ==
    /\ GeometryReturned("layer_offsets")
    /\ sw.location_line = 1
    /\ sw.structure.FirstCore = 1
    /\ Len(sw.structure.Layers) = 3
    /\ sw.final # sw.center
    /\ sw.final[1] - sw.final[3] = sw.center[1] - sw.center[3]
    /\ sw.final[1] # sw.final[3]

(* The layers of layer_infos whose band holds the offset *)
InBand(layer_infos, offset) ==
    {k \in 1..Len(layer_infos) :
        /\ layer_infos[k].center_offset - layer_infos[k].half_width - Tolerance <= offset
        /\ offset <= layer_infos[k].center_offset + layer_infos[k].half_width + Tolerance}

(* C17: select_layer_for_instance returns, among the layers whose band     *)
(* (widened by the tolerance) holds the instance's offset, the one whose    *)
(* centre is nearest, the first of them on a tie; without an offset or     *)
(* without such a layer it returns the first Structure layer if there is   *)
(* one, else the first of the widest layers.                               *)
C17_RehostNearestMatch ==
    GeometryReturned("select_layer_for_instance") =>
        LET infos == sw.layer_infos
            sel == sw.selected
            band == InBand(infos, sw.inst.offset)
            Dist(k) == Abs(infos[k].center_offset - sw.inst.offset)
            structural == {k \in 1..Len(infos) : infos[k].layer.Function = "Structure"}
        IN IF sw.inst.hasOffset /\ band # {}
           THEN /\ sel \in band
                /\ \A j \in band : Dist(sel) <= Dist(j) /\ (Dist(j) = Dist(sel) => sel <= j)
           ELSE IF structural # {}
           THEN sel \in structural /\ \A j \in structural : sel <= j
           ELSE IF infos # <<>>
           THEN /\ sel \in 1..Len(infos)
                /\ \A j \in 1..Len(infos) :
                       /\ infos[j].layer.Width <= infos[sel].layer.Width
                       /\ infos[j].layer.Width = infos[sel].layer.Width => sel <= j
           ELSE sel = 0

(* An offset in the bands of two layers, the second of them the nearer one *)
C17_Witness ==
    /\ GeometryReturned("select_layer_for_instance")
    /\ sw.inst.hasOffset
    /\ Cardinality(InBand(sw.layer_infos, sw.inst.offset)) = 2
    /\ sw.selected = 2
    /\ 1 \in InBand(sw.layer_infos, sw.inst.offset)

----------------------------------------------------------------------------
(* The diagnostic log on its own: any sequence of log_diagnostic calls,    *)
(* some with an empty message, and get_recent_diagnostics in between.  sw  *)
(* holds the history of the calls: the messages that were not empty, in    *)
(* the order of the calls, the number of empty ones, and the last answer   *)
(* of get_recent_diagnostics.  Message k is the k-th that is not empty.    *)

MaxLogged == 103
MaxEmptyCalls == 2

InitLog ==
    /\ pc = "call"
    /\ InitCall
    /\ sw = [fn |-> "log_diagnostic", logged |-> <<>>, empties |-> 0, recent |-> <<>>]

(* self.log_diagnostic(message) *)
LogDiagnostic ==
    /\ \E empty \in BOOLEAN :
          LET message == << IF empty THEN "" ELSE "message", Len(sw.logged) + 1 >>
          IN /\ IF empty THEN sw.empties < MaxEmptyCalls ELSE Len(sw.logged) < MaxLogged
             /\ diagnostic_log' = log_diagnostic(diagnostic_log, message)
             /\ sw' = [sw EXCEPT !.logged = IF empty THEN @ ELSE Append(@, message),
                                 !.empties = IF empty THEN @ + 1 ELSE @]
    /\ pc' = "call"
    /\ UNCHANGED <<doc, wallEnv, IsModifiable, target_walls, cur, txState, tgState,
                   txSnapshot, tgSnapshot, split_results, skip_messages,
                   layer_type_cache, wall_type_name_map, err, shown, txlog, hist>>

(* self.get_recent_diagnostics() *)
GetRecentDiagnostics ==
    /\ pc = "call"
    /\ pc' = "return"
    /\ sw' = [sw EXCEPT !.recent = get_recent_diagnostics(diagnostic_log)]
    /\ CallUnchanged

NextLog ==
    \/ LogDiagnostic
    \/ GetRecentDiagnostics

SpecLog == InitLog /\ [][NextLog]_vars

(* The last k entries of s *)
LastOf(s, k) == [i \in 1..k |-> s[Len(s) - k + i]]

Smaller(a, b) == IF a < b THEN a ELSE b

(* C20: after any sequence of log_diagnostic calls the log holds at most   *)
(* 100 entries, the most recent messages that were not empty, in the order *)
(* they were logged; get_recent_diagnostics() answers the last             *)
(* min(10, length) of them, in order.                                      *)
C20_DiagnosticLogBounded ==
    sw.fn = "log_diagnostic" =>
        /\ Len(diagnostic_log) <= MaxDiagnosticLog
        /\ diagnostic_log = LastOf(sw.logged, Smaller(MaxDiagnosticLog, Len(sw.logged)))
        /\ pc = "return" =>
               sw.recent = LastOf(diagnostic_log,
                                  Smaller(RecentDiagnosticsLimit, Len(diagnostic_log)))

(* 103 messages and an empty one were logged: the log holds messages 4 to  *)
(* 103 and the recent ones are 94 to 103                                   *)
C20_Witness ==
    /\ sw.fn = "log_diagnostic"
    /\ pc = "return"
    /\ Len(sw.logged) = 103
    /\ sw.empties >= 1
    /\ Len(diagnostic_log) = 100
    /\ diagnostic_log[1] = <<"message", 4>>
    /\ Len(sw.recent) = 10
    /\ sw.recent[1] = <<"message", 94>>

----------------------------------------------------------------------------
(* The order of the walls of a batch *)

(* What the document holds for wall w: the wall, its hosted instances, its *)
(* joins, the walls made of its layers *)
WallFootprint(d, w) ==
    [ exists |-> w \in d.walls,
      hosts |-> [i \in DOMAIN wallEnv[w].instances |-> d.host[i]],
      joined |-> {p \in d.joined : p[1] = w},
      disallowed |-> d.joinDisallowed \cap {w, JoinedOf(w)},
      layerWalls |-> LayerWallsOf(d, w) ]

(* Wall w is through: its last step is Done or Skipped *)
ReachedEnd(w) == StepsOf(w) # <<>> /\ Last(StepsOf(w)) \in {"Done", "Skipped"}

(* A change of the document inside the open transaction *)
MutationFor(k) ==
    /\ txState = "started" /\ txState' = "started"
    /\ WallFootprint(doc', target_walls[k]) # WallFootprint(doc, target_walls[k])

(* C21: the walls of a batch are processed in selection order and without  *)
(* interleaving: a change of the document made for the wall at position k  *)
(* is made while the loop is at k, after every earlier wall has reached    *)
(* Done or Skipped and before anything is done for a later wall.           *)
C21_WallsInSelectionOrder ==
    [][\A k \in 1..Len(target_walls) :
          MutationFor(k) =>
             /\ cur = k /\ sw.wall = target_walls[k]
             /\ \A j \in 1..(k - 1) : ReachedEnd(target_walls[j])
             /\ \A j \in (k + 1)..Len(target_walls) :
                   /\ StepsOf(target_walls[j]) = <<>>
                   /\ WallFootprint(doc', target_walls[j]) = WallFootprint(doc, target_walls[j])
                   /\ WallFootprint(doc, target_walls[j]) =
                         WallFootprint(DocumentBefore, target_walls[j])]_vars

(* The second wall of a batch has been split after the first one was *)
C21_Witness ==
    /\ Len(target_walls) = 2 /\ cur = 2 /\ pc = "wall_end"
    /\ ReachedEnd(target_walls[1])
    /\ "Done" \in Range(StepsOf(target_walls[2]))
    /\ LayerWallsOf(doc, target_walls[1]) # {}
    /\ LayerWallsOf(doc, target_walls[2]) # {}

----------------------------------------------------------------------------
(* A command object that is executed more than once. __init__ (lines       *)
(* 295-300) sets the layer-type cache and the name map; main() builds a    *)
(* new command object for every invocation, and a caller that keeps the    *)
(* object calls execute() on it again.                                     *)

(* The number of execute() calls on one command object *)
MaxRuns == 2

(* The number of walls selected for an object that is executed again *)
RerunWalls == 1

(* execute() calls so far that followed an earlier one *)
RunsBefore == Cardinality({k \in 1..Len(txlog) : txlog[k] = "execute"})

InitRerun ==
    /\ pc = "idle"
    /\ InitCommon(RerunWalls, Batches(RerunWalls, MainWallEnvs))

(* execute() is called again on the same command object: the selected      *)
(* walls that still exist are collected again, the transaction objects are *)
(* new; the fields of the object are what the run before left              *)
ExecuteAgain ==
    /\ pc = "done"
    /\ RunsBefore + 1 < MaxRuns
    /\ txlog' = Append(txlog, "execute")
    /\ target_walls' = SelectSeq(target_walls, LAMBDA w : w \in doc.walls)
    /\ cur' = 0
    /\ txState' = "unstarted"
    /\ tgState' = "unstarted"
    /\ sw' = NewFrame(InvalidElementId)
    /\ err' = "none"
    /\ hist' = [w \in DOMAIN hist |-> [steps |-> <<>>, gate |-> "none", restoreSet |-> {},
                               joins |-> NoJoins]]
    /\ pc' = "idle"
    /\ UNCHANGED <<doc, wallEnv, IsModifiable, txSnapshot, tgSnapshot, split_results,
                   skip_messages, diagnostic_log, layer_type_cache, wall_type_name_map,
                   shown>>

NextRerun == Next \/ ExecuteAgain

SpecRerun == InitRerun /\ [][NextRerun]_vars

(* C22: the layer-type cache and the name map do not outlive one command   *)
(* invocation: at the start of every execute run, a second one on the same *)
(* command object included, the cache holds no entry and the name map has  *)
(* not been built.                                                         *)
C22_CachesEmptyAtStartOfRun ==
    pc = "idle" => /\ layer_type_cache = <<>>
                   /\ ~ wall_type_name_map.built
                   /\ wall_type_name_map.map = <<>>

(* The logs, which execute() resets, hold nothing of the run before once   *)
(* the run is under way                                                    *)
LogsOfThisRunOnly ==
    pc = "tgroup_start" => /\ skip_messages = <<>>
                           /\ Len(diagnostic_log) = 2

----------------------------------------------------------------------------
(* The dependent elements in the deletion gate *)

(* The joined elements the gate has unjoined from the wall *)
UnjoinedByGate(w) == Range(hist[w].joins.detached)

(* The dependent elements of the wall that stand in the way: not the wall, *)
(* not a detached family instance, not an element the gate has unjoined    *)
DependentsLeft(w) ==
    (DOMAIN wallEnv[w].instances \cup wallEnv[w].otherDeps)
       \ (Range(sw.detached) \cup UnjoinedByGate(w) \cup {w})

(* The fragments of the gate's reason about dependent elements *)
DependentFragments == SelectSeq(GateFragments, LAMBDA f : f.tag = "dependents")

(* C23: the dependent elements are looked at only when no earlier blocking *)
(* condition fired; then the gate blocks exactly when a dependent element  *)
(* is left that is neither the wall, nor a detached family instance, nor a *)
(* joined element the gate has detached, and the reason lists each of      *)
(* them.                                                                   *)
C23_DependentsCheckedLast ==
    GateAnswered =>
        IF Len(DependentFragments) < Len(GateFragments)
        THEN DependentFragments = <<>> /\ ~ sw.can_delete
        ELSE /\ sw.can_delete <=> DependentsLeft(sw.wall) = {}
             /\ DependentsLeft(sw.wall) # {} =>
                   DependentFragments = << Fragment("dependents", DependentsLeft(sw.wall)) >>
             /\ DependentsLeft(sw.wall) = {} => DependentFragments = <<>>

(* The gate has unjoined a joined element that is a dependent of the wall, *)
(* the instance of the wall was detached, and the one dependent left is    *)
(* the reason                                                              *)
C23_Witness ==
    /\ GateAnswered
    /\ JoinedOf(sw.wall) \in UnjoinedByGate(sw.wall)
    /\ sw.detached # <<>>
    /\ ~ sw.can_delete
    /\ GateFragments = << Fragment("dependents", {DependentOf(sw.wall)}) >>

(* The only dependent besides the detached instance is the joined element  *)
(* the gate has unjoined: the gate lets the wall be deleted                *)
C23_WitnessUnjoinedDependent ==
    /\ GateAnswered
    /\ wallEnv[sw.wall].otherDeps = {JoinedOf(sw.wall)}
    /\ JoinedOf(sw.wall) \in UnjoinedByGate(sw.wall)
    /\ sw.can_delete

----------------------------------------------------------------------------
(* The detachment of the joined elements *)

(* The elements joined to wall w before the gate *)
JoinedBefore(w) == GetJoinedElements(DocumentBefore, w)

(* try_detach_joined_elements has run for the wall of the gate *)
JoinsDetachedByGate == GateAnswered /\ IsModifiable

(* C24: no unjoin is requested for a joined element that is not a          *)
(* HostObject: it is recorded as a join-detach failure and the gate        *)
(* answers false; a HostObject that is not reported as joined counts as    *)
(* detached without an unjoin request; a HostObject that is still joined   *)
(* after the unjoin request is recorded as a failure.                      *)
C24_JoinDetachOutcomes ==
    JoinsDetachedByGate =>
        \A e \in JoinedBefore(sw.wall) :
           LET joins == hist[sw.wall].joins
               hostObject == ElemClass(e) \in {"Wall", "Floor"}
           IN /\ ~ hostObject =>
                    /\ e \notin joins.requested
                    /\ e \in Range(joins.failures)
                    /\ e \notin Range(joins.detached)
                    /\ ~ sw.can_delete
                    /\ <<sw.wall, e>> \in doc.joined
              /\ (hostObject /\ ElemUnjoin(e) = "notJoined") =>
                    /\ e \in Range(joins.detached)
                    /\ e \notin Range(joins.failures)
                    /\ e \notin joins.requested
              /\ (hostObject /\ ElemUnjoin(e) = "fails") =>
                    /\ e \in joins.requested
                    /\ e \in Range(joins.failures)
                    /\ e \notin Range(joins.detached)
                    /\ ~ sw.can_delete

(* The gate met a joined element that is no HostObject *)
C24_Witness ==
    /\ JoinsDetachedByGate
    /\ \E e \in JoinedBefore(sw.wall) :
          /\ ElemClass(e) = "Other"
          /\ e \in Range(hist[sw.wall].joins.failures)
          /\ Len(GateFragments) = 1

(* The gate met a HostObject that was not reported as joined, and one that *)
(* was still joined after the unjoin request                               *)
C24_WitnessNotJoined ==
    /\ JoinsDetachedByGate /\ sw.can_delete
    /\ \E e \in JoinedBefore(sw.wall) :
          ElemUnjoin(e) = "notJoined" /\ e \in Range(hist[sw.wall].joins.detached)

C24_WitnessStillJoined ==
    /\ JoinsDetachedByGate
    /\ \E e \in JoinedBefore(sw.wall) :
          ElemUnjoin(e) = "fails" /\ e \in hist[sw.wall].joins.requested

(* C25: after every successful unjoin of a joined element from the wall,   *)
(* auto-joining is disallowed at both ends of the wall, whatever the class *)
(* of the joined element, and at both ends of the joined element when it   *)
(* is a wall.                                                              *)
C25_JoinsDisallowedAfterUnjoin ==
    JoinsDetachedByGate =>
        \A e \in Range(hist[sw.wall].joins.detached) \cap hist[sw.wall].joins.requested :
           /\ sw.wall \in doc.joinDisallowed
           /\ ElemClass(e) = "Wall" => e \in doc.joinDisallowed

(* What the code does: the joins are disallowed, at the ends of both       *)
(* walls, only when the joined element is a wall                           *)
JoinsDisallowedForWallsOnly ==
    JoinsDetachedByGate =>
        doc.joinDisallowed =
            UNION { {sw.wall, e} : e \in {x \in Range(hist[sw.wall].joins.detached) :
                                             ElemClass(x) = "Wall"} }

----------------------------------------------------------------------------
(* detach_hosted_family_instances on its own: two walls with one family    *)
(* instance each, every instance hosted by either wall or by none, through *)
(* its Host or through its HostFace, and any subset of the instances       *)
(* handed over as hosted_family_ids                                        *)

DetachInstances == {InstanceOf(1), InstanceOf(2)}

DetachWallEnvs(w) ==
    { [PlainWall(w) EXCEPT !.instances =
          [i \in {InstanceOf(w)} |-> [param |-> p, hasOffset |-> TRUE, offset |-> 0]]] :
      p \in {"writable", "readonly", "missing"} }

InitDetach ==
    /\ pc = "call"
    /\ target_walls = <<1, 2>>
    /\ wallEnv \in Batches(2, DetachWallEnvs)
    /\ \E host \in [DetachInstances -> {InvalidElementId, 1, 2}],
          hostFace \in [DetachInstances -> {InvalidElementId, 1}] :
          doc = [InitialDoc(wallEnv, FALSE, "bob") EXCEPT !.host = host,
                                                          !.hostFace = hostFace]
    /\ IsModifiable = TRUE
    /\ cur = 1
    /\ txState = "started"
    /\ tgState = "started"
    /\ txSnapshot = doc
    /\ tgSnapshot = doc
    /\ split_results = <<>>
    /\ skip_messages = <<>>
    /\ diagnostic_log = <<>>
    /\ layer_type_cache = <<>>
    /\ wall_type_name_map = [built |-> FALSE, map |-> <<>>]
    /\ \E ids \in SUBSET DetachInstances, setResults \in [DetachInstances -> SetResults] :
          sw = [fn |-> "detach_hosted_family_instances", wall |-> 1,
                hosted_family_ids |-> ids, setResults |-> setResults]
    /\ err = "none"
    /\ shown = <<>>
    /\ txlog = <<>>
    /\ hist = <<>>

(* detached, failed = detach_hosted_family_instances(wall, ids) *)
DetachCall ==
    /\ pc = "call"
    /\ LET r == detach_hosted_family_instances(doc, sw.wall, sw.hosted_family_ids,
                                               sw.setResults)
       IN /\ doc' = r.doc
          /\ sw' = [fn |-> sw.fn, wall |-> sw.wall,
                    hosted_family_ids |-> sw.hosted_family_ids,
                    setResults |-> sw.setResults,
                    detached |-> r.detached, failed |-> r.failed]
    /\ pc' = "return"
    /\ UNCHANGED <<wallEnv, IsModifiable, target_walls, cur, txState, tgState,
                   txSnapshot, tgSnapshot, split_results, skip_messages, diagnostic_log,
                   layer_type_cache, wall_type_name_map, err, shown, txlog, hist>>

NextDetach == DetachCall

SpecDetach == InitDetach /\ [][NextDetach]_vars

(* The instance is hosted by the wall of the call, when it is called *)
HostedAtCall(i) ==
    txSnapshot.host[i] = sw.wall \/ txSnapshot.hostFace[i] = sw.wall

(* Clearing the host parameter of the instance succeeds *)
HostCleared(i) == InstInfo(i).param = "writable" /\ sw.setResults[i] = "ok"

(* C26: detach_hosted_family_instances puts every instance of              *)
(* hosted_family_ids that is hosted by the wall, by its Host or by its     *)
(* HostFace, into exactly one of its results: detached when the host       *)
(* parameter was cleared, failed when the parameter is missing or          *)
(* read-only or Set returned false or raised; an instance that the wall    *)
(* does not host is in neither result and is not modified; nothing is      *)
(* raised to the caller.                                                   *)
C26_DetachedOrFailed ==
    (pc = "return" /\ sw.fn = "detach_hosted_family_instances") =>
        /\ err = "none"
        /\ Len(sw.detached) + Len(sw.failed)
              = Cardinality(Range(sw.detached) \cup Range(sw.failed))
        /\ \A i \in DetachInstances :
              IF i \in sw.hosted_family_ids /\ HostedAtCall(i)
              THEN /\ i \in Range(sw.detached) <=> HostCleared(i)
                   /\ i \in Range(sw.failed) <=> ~ HostCleared(i)
                   /\ doc.host[i] = IF HostCleared(i) THEN InvalidElementId
                                    ELSE txSnapshot.host[i]
              ELSE /\ i \notin Range(sw.detached) \cup Range(sw.failed)
                   /\ doc.host[i] = txSnapshot.host[i]
                   /\ doc.hostFace[i] = txSnapshot.hostFace[i]

(* One instance hosted through its HostFace was detached, the other one,   *)
(* hosted by the other wall, was left alone                                *)
C26_Witness ==
    /\ pc = "return" /\ sw.fn = "detach_hosted_family_instances"
    /\ sw.hosted_family_ids = DetachInstances
    /\ txSnapshot.host[InstanceOf(1)] = InvalidElementId
    /\ txSnapshot.hostFace[InstanceOf(1)] = 1
    /\ sw.detached = << InstanceOf(1) >>
    /\ sw.failed = <<>>
    /\ doc.host[InstanceOf(2)] = 2

(* Both instances are hosted by the wall; one has a read-only host         *)
(* parameter, for the other one Set raises: both have failed               *)
C26_WitnessFailed ==
    /\ pc = "return" /\ sw.fn = "detach_hosted_family_instances"
    /\ Range(sw.failed) = DetachInstances
    /\ InstInfo(InstanceOf(1)).param = "writable"
    /\ sw.setResults[InstanceOf(1)] = "raises"
    /\ InstInfo(InstanceOf(2)).param = "readonly"

----------------------------------------------------------------------------
(* The Creating step *)

(* The indices (from 0) of the first n layers that have a positive width *)
PositiveLayers(layers, n) ==
    SelectSeq([k \in 1..n |-> k - 1], LAMBDA index : layers[index + 1].Width > 0)

(* The layer indices of the walls created for the wall in hand, in the     *)
(* order of their creation                                                 *)
CreatedIndices ==
    [k \in 1..Len(sw.created) |->
        (CHOOSE nw \in doc.newWalls : nw.Id = sw.created[k]).Index]

LayersOfWallInHand == try_get_wall_type(DocumentBefore, wallEnv[sw.wall]).Layers

(* split_wall has returned from the Creating step with no wall created *)
NoWallCreatedReturn ==
    /\ pc = "wall_end"
    /\ hist[sw.wall].gate = "allowed"
    /\ sw.created = <<>>

(* The Creating step, with Restored(i) for what has become of a detached   *)
(* instance i when no wall was created                                     *)
CreatingStep(Restored(_)) ==
    /\ pc = "create" =>
          /\ CreatedIndices = PositiveLayers(LayersOfWallInHand, sw.layerIdx - 1)
          /\ {nw.Id : nw \in LayerWallsOf(doc, sw.wall)} = Range(sw.created)
          /\ Cardinality(LayerWallsOf(doc, sw.wall)) = Len(sw.created)
    /\ pc \in {"delete", "rehost"} =>
          /\ CreatedIndices = PositiveLayers(LayersOfWallInHand, Len(LayersOfWallInHand))
          /\ Cardinality(LayerWallsOf(doc, sw.wall)) = Len(sw.created)
    /\ NoWallCreatedReturn =>
          /\ \A i \in Range(sw.detached) : Restored(i)
          /\ sw.wall \in doc.walls
          /\ sw.returned = "None"
          /\ err = "none"
          /\ txState = "started"

(* C27: in the Creating step split_wall creates exactly one new wall per   *)
(* layer of positive width, in layer order, and none for a layer of width  *)
(* <= 0; when no wall was created the detached instances are hosted by the *)
(* original wall again, the original wall is not deleted, no result is     *)
(* returned and the batch goes on.                                         *)
C27_OneWallPerPositiveLayer ==
    CreatingStep(LAMBDA i : doc.host[i] = sw.wall)

(* What the code does: the same, but the restore is tried and its outcome  *)
(* dropped, so that a detached instance is hosted by the wall again only   *)
(* when Parameter.Set accepts the wall as its host                         *)
CreatingRestoresBestEffort ==
    CreatingStep(LAMBDA i : doc.host[i] = IF i \in hist[sw.wall].restoreSet
                                          THEN sw.wall ELSE InvalidElementId)

(* A wall whose type has a membrane layer between two layers with a width  *)
(* got two walls, for the layers 0 and 2                                   *)
CreatedAroundMembrane ==
    /\ pc = "delete"
    /\ wallEnv[sw.wall].typeId = TypeIds.sandwich
    /\ CreatedIndices = <<0, 2>>

(* The first wall of the batch got no wall (membrane layers only), and the *)
(* second one was split                                                    *)
BatchGoesOnAfterNoWallCreated ==
    /\ Len(target_walls) = 2 /\ cur = 2 /\ pc = "wall_end"
    /\ wallEnv[target_walls[1]].typeId = TypeIds.membrane
    /\ hist[target_walls[1]].gate = "allowed"
    /\ sw.returned = "result"

----------------------------------------------------------------------------
(* The reference offset of the core-relative location lines *)

(* The total width of the layers whose index (from 0) is in S *)
RECURSIVE WidthOf(_, _)
WidthOf(layers, S) ==
    IF S = {} THEN 0
    ELSE LET index == CHOOSE x \in S : TRUE
         IN layers[index + 1].Width + WidthOf(layers, S \ {index})

(* C28: for the three core-relative location lines                         *)
(* calculate_reference_offset returns 0 when the first or the last core    *)
(* layer index is negative or last < first; otherwise, with T the total    *)
(* thickness, it returns T/2 - exterior_shell on the exterior core face,   *)
(* -T/2 + interior_shell on the interior core face and                     *)
(* T/2 - (exterior_shell + core/2) on the core centerline, where           *)
(* exterior_shell + core + interior_shell = T; a location-line value that  *)
(* is none of the six is treated as the wall centerline.  Stated on        *)
(* doubled lengths.                                                        *)
C28_CoreRelativeReference ==
    GeometryReturned("layer_offsets") =>
        LET layers == sw.structure.Layers
            n == Len(layers)
            first == sw.structure.FirstCore
            last == sw.structure.LastCore
            T == WidthOf(layers, 0..(n - 1))
            exterior_shell == WidthOf(layers, {k \in 0..(n - 1) : k < first})
            core == WidthOf(layers, {k \in 0..(n - 1) : first <= k /\ k <= last})
            interior_shell == WidthOf(layers, {k \in 0..(n - 1) : k > last})
            noCore == first < 0 \/ last < 0 \/ last < first
        IN /\ (sw.location_line \in {1, 4, 5} /\ noCore) => sw.reference = 0
           /\ ~ noCore =>
                 /\ exterior_shell + core + interior_shell = T
                 /\ sw.location_line = 4 => 2 * sw.reference = T - 2 * exterior_shell
                 /\ sw.location_line = 5 => 2 * sw.reference = - T + 2 * interior_shell
                 /\ sw.location_line = 1 =>
                       2 * sw.reference = T - (2 * exterior_shell + core)
           /\ sw.location_line \notin 0..5 => sw.reference = 0
           /\ \A i \in 1..n : sw.final[i] = sw.reference + sw.center[i]

(* Three layers with the core in the middle, on the core centerline: the   *)
(* reference line is off the wall centerline                               *)
C28_Witness ==
    /\ GeometryReturned("layer_offsets")
    /\ sw.location_line = 1
    /\ sw.structure.FirstCore = 1 /\ sw.structure.LastCore = 1
    /\ Len(sw.structure.Layers) = 3
    /\ sw.structure.Layers[1].Width = 400000
    /\ sw.structure.Layers[2].Width = 400000
    /\ sw.structure.Layers[3].Width = 200000
    /\ sw.reference = -100000

(* The last core layer lies before the first one, on a core face: the      *)
(* reference line is the wall centerline                                   *)
C28_WitnessInvertedCore ==
    /\ GeometryReturned("layer_offsets")
    /\ sw.location_line = 4
    /\ sw.structure.LastCore >= 0
    /\ sw.structure.LastCore < sw.structure.FirstCore
    /\ sw.structure.Layers[1].Width > 0
    /\ sw.reference = 0

----------------------------------------------------------------------------
(* Layer types that are gone from the document *)

(* The layer walls of the wall in hand, while its split is under way *)
LayerWallsInHand ==
    IF pc \in {"create", "delete"} /\ txState = "started"
    THEN LayerWallsOf(doc, sw.wall) ELSE {}

(* C29: get_or_create_layer_type never returns a type that no longer       *)
(* exists in the document: a cache entry whose id resolves to no wall type *)
(* is evicted and the type is resolved again, so that every type returned, *)
(* here the type of every layer wall being created, is a wall type of the  *)
(* document.                                                               *)
C29_ReturnedTypeExists ==
    \A nw \in LayerWallsInHand : GetType(doc, nw.TypeId) # NoneType

(* The cache itself is looked after: an entry for the key of a layer that  *)
(* has got its wall names the type of that wall                            *)
CacheEntryOfCreatedLayer ==
    \A nw \in LayerWallsInHand :
       LET base_type == try_get_wall_type(doc, wallEnv[sw.wall])
           cache_key == build_layer_type_key(base_type.Id, base_type.Layers[nw.Index + 1],
                                             nw.Index)
       IN cache_key \in DOMAIN layer_type_cache /\ layer_type_cache[cache_key] = nw.TypeId

(* A second run on the same command object met a cache entry for a type    *)
(* that the roll back of the first run has taken out of the document       *)
StaleCacheEntryMet ==
    /\ RunsBefore = 1
    /\ pc = "create" /\ sw.layerIdx = 1
    /\ \E cache_key \in DOMAIN layer_type_cache :
          GetType(doc, layer_type_cache[cache_key]) = NoneType

----------------------------------------------------------------------------
(* Ownership and workset in the deletion gate *)

(* A user name without the blanks around it and in lower case, for the     *)
(* names of the gate's inputs                                              *)
TrimmedLowerCase(name) ==
    CASE name = "BOB " -> "bob"
      [] name = "bob" -> "bob"
      [] name = "amy" -> "amy"
      [] name = "" -> ""

(* The tags of the fragments of the gate's reason *)
GateTags == {GateFragments[k].tag : k \in 1..Len(GateFragments)}

(* C30: in a workshared document the ownership check blocks the deletion   *)
(* exactly when the owner name of the wall is not empty and the name of    *)
(* the current user is empty or another one, both trimmed and compared     *)
(* without case; an empty owner never blocks; in a document that is not    *)
(* workshared neither the ownership nor the workset check blocks.          *)
C30_OwnershipBlocks ==
    GateAnswered =>
        LET owner == TrimmedLowerCase(wallEnv[sw.wall].owner)
            user == TrimmedLowerCase(doc.Username)
        IN /\ doc.IsWorkshared =>
                 /\ "owner" \in GateTags <=> (owner # "" /\ (user = "" \/ user # owner))
                 /\ "workset" \in GateTags <=> ~ wallEnv[sw.wall].worksetEditable
                 /\ "owner" \in GateTags => ~ sw.can_delete
           /\ owner = "" => "owner" \notin GateTags
           /\ ~ doc.IsWorkshared => "owner" \notin GateTags /\ "workset" \notin GateTags

(* In a workshared document the wall is owned by BOB and the user is bob:  *)
(* nothing blocks                                                          *)
C30_Witness ==
    /\ GateAnswered
    /\ doc.IsWorkshared
    /\ wallEnv[sw.wall].owner = "BOB " /\ doc.Username = "bob"
    /\ sw.can_delete

(* The owner is another user, and the owner is the only thing that blocks; *)
(* the user name is empty, and the owner blocks                            *)
C30_WitnessOtherOwner ==
    /\ GateAnswered
    /\ doc.IsWorkshared
    /\ doc.Username = "amy"
    /\ GateTags = {"owner"}

C30_WitnessNoUserName ==
    /\ GateAnswered
    /\ doc.IsWorkshared
    /\ doc.Username = ""
    /\ GateTags = {"owner"}

(* The document is not workshared: a wall of another owner in a workset    *)
(* that is not editable may be deleted                                     *)
C30_WitnessNotWorkshared ==
    /\ GateAnswered
    /\ ~ doc.IsWorkshared
    /\ wallEnv[sw.wall].owner = "BOB " /\ doc.Username = "amy"
    /\ ~ wallEnv[sw.wall].worksetEditable
    /\ sw.can_delete


(***************************************************************************)
(* C31: for every layer of every wall, the wall type get_or_create_layer_  *)
(* type returns is a single-layer type whose layer has that layer's width, *)
(* function and material, and two layers of one base type that differ in   *)
(* index, material or width never resolve to the same type.  Stated of the *)
(* layer walls of the wall in hand, which carry the returned types.  The   *)
(* code does not keep it: build_layer_type_name cuts the display name to   *)
(* 60 characters, so the layers of a base type with a long name share one  *)
(* display name, and the scan of the document by name (lines 658-664)      *)
(* returns the type created for the first layer for every later layer      *)
(* without looking at its structure.                                       *)
(***************************************************************************)
ResolvedLayerType(nw) == GetType(doc, nw.TypeId)

C31_TypeMatchesLayer ==
    /\ \A nw \in LayerWallsInHand :
          ResolvedLayerType(nw) # NoneType
          /\ ResolvedLayerType(nw).Layers = << LayersOfWallInHand[nw.Index + 1] >>
    /\ \A a, b \in LayerWallsInHand :
          LayerTypeKeyOf(a) # LayerTypeKeyOf(b) => a.TypeId # b.TypeId

(* The claim holds of every wall whose base type name is short enough for  *)
(* the display names of its layers to differ.                              *)
HasLongTypeName(w) == GetType(DocumentBefore, wallEnv[w].typeId).Name.base \in LongBaseNames

TypeMatchesLayerForShortNames ==
    (pc \in {"create", "delete"} /\ ~ HasLongTypeName(sw.wall)) => C31_TypeMatchesLayer

(* Two layer walls of a wall with a long type name that share one type.    *)
LongNameLayersShareType ==
    \E a, b \in LayerWallsInHand :
       /\ HasLongTypeName(sw.wall)
       /\ a.Index # b.Index
       /\ a.TypeId = b.TypeId


----------------------------------------------------------------------------
(* execute when the calls on the transaction objects may fail.  A call     *)
(* that fails raises and leaves its object in the state it was in; the     *)
(* log of calls records it with the mark "raised".  Every call of execute  *)
(* on tgroup and transaction may fail: each is one more outcome of the     *)
(* statement modelled by the action of the same place.                     *)

(* The number of walls of a batch whose transaction calls may fail *)
TxFailureWalls == 1

(* tgroup.Start() raises (line 337): the outer except takes over *)
GroupStartRaises ==
    /\ pc = "tgroup_start"
    /\ txlog' = Append(txlog, "TransactionGroup.Start raised")
    /\ err' = "Exception: TransactionGroup.Start"
    /\ pc' = "except_outer"
    /\ UNCHANGED <<doc, wallEnv, IsModifiable, target_walls, cur, txState, tgState,
                   txSnapshot, tgSnapshot, split_results, skip_messages, diagnostic_log,
                   layer_type_cache, wall_type_name_map, sw, shown, hist>>

(* transaction.Start() raises (line 342): the inner except takes over *)
TxStartRaises ==
    /\ pc = "tx_start"
    /\ txlog' = Append(txlog, "Transaction.Start raised")
    /\ err' = "Exception: Transaction.Start"
    /\ pc' = "except_inner"
    /\ UNCHANGED <<doc, wallEnv, IsModifiable, target_walls, cur, txState, tgState,
                   txSnapshot, tgSnapshot, split_results, skip_messages, diagnostic_log,
                   layer_type_cache, wall_type_name_map, sw, shown, hist>>

(* transaction.Commit() raises (line 391) *)
CommitRaises ==
    /\ pc = "after_loop"
    /\ split_results # <<>>
    /\ txlog' = Append(txlog, "Transaction.Commit raised")
    /\ err' = "Exception: Transaction.Commit"
    /\ pc' = "except_inner"
    /\ UNCHANGED <<doc, wallEnv, IsModifiable, target_walls, cur, txState, tgState,
                   txSnapshot, tgSnapshot, split_results, skip_messages, diagnostic_log,
                   layer_type_cache, wall_type_name_map, sw, shown, hist>>

(* No wall was split and transaction.RollBack() raises (lines 379-388) *)
NoResultsRollBackRaises ==
    /\ pc = "after_loop"
    /\ split_results = <<>>
    /\ diagnostic_log' = log_diagnostic(diagnostic_log, <<"nothing split, rolling back", 0>>)
    /\ shown' = Append(shown, "nothing split")
    /\ txlog' = Append(txlog, "Transaction.RollBack raised")
    /\ err' = "Exception: Transaction.RollBack"
    /\ pc' = "except_inner"
    /\ UNCHANGED <<doc, wallEnv, IsModifiable, target_walls, cur, txState, tgState,
                   txSnapshot, tgSnapshot, split_results, skip_messages,
                   layer_type_cache, wall_type_name_map, sw, hist>>

(* No wall was split and tgroup.RollBack() raises (line 389), inside the   *)
(* inner try *)
NoResultsGroupRollBackRaises ==
    /\ pc = "no_results_group"
    /\ txlog' = Append(txlog, "TransactionGroup.RollBack raised")
    /\ err' = "Exception: TransactionGroup.RollBack"
    /\ pc' = "except_inner"
    /\ UNCHANGED <<doc, wallEnv, IsModifiable, target_walls, cur, txState, tgState,
                   txSnapshot, tgSnapshot, split_results, skip_messages, diagnostic_log,
                   layer_type_cache, wall_type_name_map, sw, shown, hist>>

(* transaction.RollBack() raises in the inner except (line 396): its       *)
(* error takes the place of the one that was handled *)
ExceptInnerRollBackRaises ==
    /\ pc = "except_inner"
    /\ HasStarted
    /\ txlog' = Append(txlog, "Transaction.RollBack raised")
    /\ err' = "Exception: Transaction.RollBack"
    /\ pc' = "finally_raise"
    /\ UNCHANGED <<doc, wallEnv, IsModifiable, target_walls, cur, txState, tgState,
                   txSnapshot, tgSnapshot, split_results, skip_messages, diagnostic_log,
                   layer_type_cache, wall_type_name_map, sw, shown, hist>>

(* transaction.RollBack() raises in the finally (line 400) *)
FinallyRollBackRaises ==
    /\ pc \in {"finally_return", "finally_raise", "finally_normal"}
    /\ HasStarted
    /\ txlog' = Append(txlog, "Transaction.RollBack raised")
    /\ err' = "Exception: Transaction.RollBack"
    /\ pc' = "except_outer"
    /\ UNCHANGED <<doc, wallEnv, IsModifiable, target_walls, cur, txState, tgState,
                   txSnapshot, tgSnapshot, split_results, skip_messages, diagnostic_log,
                   layer_type_cache, wall_type_name_map, sw, shown, hist>>

(* tgroup.Assimilate() raises (line 402) *)
AssimilateRaises ==
    /\ pc = "assimilate"
    /\ txlog' = Append(txlog, "TransactionGroup.Assimilate raised")
    /\ err' = "Exception: TransactionGroup.Assimilate"
    /\ pc' = "except_outer"
    /\ UNCHANGED <<doc, wallEnv, IsModifiable, target_walls, cur, txState, tgState,
                   txSnapshot, tgSnapshot, split_results, skip_messages, diagnostic_log,
                   layer_type_cache, wall_type_name_map, sw, shown, hist>>

(* tgroup.RollBack() raises in the outer except (line 406): no handler is  *)
(* left, the error leaves execute before the dialog.  A group that was     *)
(* not started cannot be rolled back and the call always raises; on a      *)
(* started group this is the failing outcome of the call.                  *)
ExceptOuterRollBackRaises ==
    /\ pc = "except_outer"
    /\ txlog' = Append(txlog, "TransactionGroup.RollBack raised")
    /\ err' = "Exception: TransactionGroup.RollBack"
    /\ pc' = "done"
    /\ UNCHANGED <<doc, wallEnv, IsModifiable, target_walls, cur, txState, tgState,
                   txSnapshot, tgSnapshot, split_results, skip_messages, diagnostic_log,
                   layer_type_cache, wall_type_name_map, sw, shown, hist>>

NextTxFailures ==
    \/ Next
    \/ GroupStartRaises
    \/ TxStartRaises
    \/ CommitRaises
    \/ NoResultsRollBackRaises
    \/ NoResultsGroupRollBackRaises
    \/ ExceptInnerRollBackRaises
    \/ FinallyRollBackRaises
    \/ AssimilateRaises
    \/ ExceptOuterRollBackRaises

(* The positions of execute, and the step that leaves the position the    *)
(* call is at: another statement, or the next wall of the loop.            *)
ExecutePositions ==
    {"idle", "tgroup_start", "tx_start", "loop", "split_wall", "detach", "gate",
     "create", "delete", "rehost", "wall_end", "after_loop", "no_results_group",
     "except_inner", "finally_normal", "finally_raise", "finally_return",
     "assimilate", "except_outer", "summary", "done"}

Advance ==
    /\ pc # "done"
    /\ pc' \in ExecutePositions
    /\ cur' \in 0..(Len(target_walls) + 1)

(* execute is one sequential call that waits for nothing: control does not *)
(* stay for ever at a statement it has reached, which is weak fairness of  *)
(* the step that leaves the position.                                      *)
InitTxFailures ==
    /\ pc = "idle"
    /\ \E n \in 0..TxFailureWalls : InitCommon(n, Batches(n, MainWallEnvs))

SpecTxFailures ==
    InitTxFailures /\ [][NextTxFailures]_vars /\ WF_<<pc, cur>>(Advance)


(***************************************************************************)
(* C32: every execute run that starts the transaction group terminates     *)
(* with the inner transaction and the group closed: the transaction is     *)
(* committed or rolled back and never both, the group is assimilated only  *)
(* if the transaction committed and is rolled back otherwise, and no path  *)
(* returns with either still started.  As stated it does not hold of the   *)
(* runs in which transaction.Start() raises (the transaction is neither    *)
(* committed nor rolled back: it never started) nor of those in which the  *)
(* last RollBack the code can make raises.                                 *)
(***************************************************************************)
GroupWasStarted == "TransactionGroup.Start" \in Range(txlog)

TransactionWasStarted == "Transaction.Start" \in Range(txlog)

CommittedOrRolledBackNotBoth ==
    ~ ("Transaction.Commit" \in Range(txlog) /\ "Transaction.RollBack" \in Range(txlog))

GroupFollowsTransaction ==
    /\ tgState \in {"assimilated", "rolledback"}
    /\ tgState = "assimilated" => txState = "committed"

FinallyRollBackRaised ==
    /\ Len(txlog) >= 2
    /\ txlog[Len(txlog) - 1] = "Transaction.RollBack raised"
    /\ Last(txlog) \in {"TransactionGroup.RollBack", "TransactionGroup.RollBack raised"}

OuterRollBackRaised ==
    txlog # <<>> /\ Last(txlog) = "TransactionGroup.RollBack raised"

C32_WitnessRollBackRetried ==
    /\ pc = "done"
    /\ "Transaction.RollBack raised" \in Range(txlog)
    /\ ~ FinallyRollBackRaised
    /\ txState = "rolledback"
    /\ tgState = "rolledback"

(* A run that ends with the transaction still started *)
C32_WitnessLeftStarted ==
    /\ pc = "done"
    /\ txState = "started"

(***************************************************************************)
(* C33: execute never invokes Commit or RollBack on an inner transaction   *)
(* that is not started and never invokes Assimilate or RollBack on a group *)
(* that was not started, on any path, the failures of tgroup.Start(),      *)
(* transaction.Start(), transaction.Commit() and transaction.RollBack()    *)
(* included.  The code does not keep it: when tgroup.Start() raises, the   *)
(* outer handler calls tgroup.RollBack() on the group that never started.  *)
(***************************************************************************)
TransactionCalls == {"Transaction.Commit", "Transaction.Commit raised",
                     "Transaction.RollBack", "Transaction.RollBack raised"}

GroupCalls == {"TransactionGroup.Assimilate", "TransactionGroup.Assimilate raised",
               "TransactionGroup.RollBack", "TransactionGroup.RollBack raised"}

CallOnStartedObject ==
    Len(txlog') = Len(txlog) + 1 =>
        /\ Last(txlog') \in TransactionCalls => txState = "started"
        /\ Last(txlog') \in GroupCalls => tgState = "started"

C33_CallsOnStartedObjectsOnly == [][CallOnStartedObject]_vars

(* Every call but the RollBack after a failed tgroup.Start() is made on a  *)
(* started object.                                                         *)
CallsOnStartedObjectsOnceGroupStarted ==
    [][GroupWasStarted => CallOnStartedObject]_vars

(* The run in which tgroup.Start() raised and tgroup.RollBack() was called *)
RollBackOfGroupNotStarted ==
    /\ pc = "done"
    /\ txlog = << "TransactionGroup.Start raised", "TransactionGroup.RollBack raised" >>
    /\ tgState = "unstarted"


(***************************************************************************)
(* C34: for every location line and every sequence of layer widths the     *)
(* thickness bands of the layer walls are contiguous and do not overlap,   *)
(* in layer order: the interior edge of a layer, offset_i - width_i/2, is  *)
(* the exterior edge of the next, offset_(i+1) + width_(i+1)/2, and from   *)
(* the exterior edge of the first band to the interior edge of the last    *)
(* it is the total thickness.  Stated of the final offsets of all layers;  *)
(* a layer of no width is a band of no thickness between its neighbours.   *)
(***************************************************************************)
ExteriorEdge(k) == sw.final[k] + sw.structure.Layers[k].Width \div 2

InteriorEdge(k) == sw.final[k] - sw.structure.Layers[k].Width \div 2

AllWidthsPositive == \A k \in 1..Len(sw.structure.Layers) : sw.structure.Layers[k].Width > 0

C34_BandsContiguous ==
    GeometryReturned("layer_offsets") =>
        LET n == Len(sw.structure.Layers)
        IN /\ \A k \in 1..(n - 1) : InteriorEdge(k) = ExteriorEdge(k + 1)
           /\ \A k \in 1..n : InteriorEdge(k) <= ExteriorEdge(k)
           /\ ExteriorEdge(1) - InteriorEdge(n) = calculate_total_thickness(sw.structure.Layers)

(* Three layers of positive and different widths, on a line that is not    *)
(* the centre line of the wall.                                            *)
C34_Witness ==
    /\ GeometryReturned("layer_offsets")
    /\ AllWidthsPositive
    /\ Len(sw.structure.Layers) = 3
    /\ sw.structure.Layers[1].Width # sw.structure.Layers[2].Width
    /\ sw.location_line = 4
    /\ sw.reference # 0
    /\ InteriorEdge(1) = ExteriorEdge(2)
    /\ InteriorEdge(2) = ExteriorEdge(3)

(***************************************************************************)
(* C35: the layer walls occupy the thickness of the original wall          *)
(* relative to its reference line.  Positive offsets are toward the        *)
(* exterior.  On the exterior finish face every layer has                  *)
(* offset_i + width_i/2 <= 0 and the outer edge of the exterior-most layer *)
(* is at 0; on the interior finish face every layer has                    *)
(* offset_i - width_i/2 >= 0 and the inner edge of the interior-most layer *)
(* is at 0.  The code does not keep it: calculate_reference_offset returns *)
(* the position of the reference line seen from the centre of the wall,    *)
(* and split_wall adds it to the centre offsets where it had to subtract   *)
(* it: the bands lie on the far side of the reference line.                *)
(***************************************************************************)
FINISH_FACE_EXTERIOR == 2

FINISH_FACE_INTERIOR == 3

C35_BandsWithinOriginalWall ==
    GeometryReturned("layer_offsets") =>
        LET n == Len(sw.structure.Layers)
        IN /\ sw.location_line = FINISH_FACE_EXTERIOR =>
                 /\ \A k \in 1..n : ExteriorEdge(k) <= 0
                 /\ ExteriorEdge(1) = 0
           /\ sw.location_line = FINISH_FACE_INTERIOR =>
                 /\ \A k \in 1..n : InteriorEdge(k) >= 0
                 /\ InteriorEdge(n) = 0

(* What the code computes: on the exterior finish face the bands lie       *)
(* between 0 and the total thickness, outside the exterior face, and on    *)
(* the interior finish face between minus the total thickness and 0.       *)
BandsMirroredAtReferenceLine ==
    GeometryReturned("layer_offsets") =>
        LET n == Len(sw.structure.Layers)
            total == calculate_total_thickness(sw.structure.Layers)
        IN /\ sw.location_line = FINISH_FACE_EXTERIOR =>
                 /\ \A k \in 1..n : InteriorEdge(k) >= 0
                 /\ InteriorEdge(n) = 0
                 /\ ExteriorEdge(1) = total
           /\ sw.location_line = FINISH_FACE_INTERIOR =>
                 /\ \A k \in 1..n : ExteriorEdge(k) <= 0
                 /\ ExteriorEdge(1) = 0
                 /\ InteriorEdge(n) = - total

(* One layer of positive width on the exterior finish face: its band is    *)
(* outside the wall.                                                       *)
BandOutsideExteriorFace ==
    /\ GeometryReturned("layer_offsets")
    /\ sw.location_line = FINISH_FACE_EXTERIOR
    /\ Len(sw.structure.Layers) = 1
    /\ InteriorEdge(1) = 0
    /\ ExteriorEdge(1) > 0


(***************************************************************************)
(* C36: in every WallSplitResult the rehosted, unmatched and failed-detach *)
(* lists are pairwise disjoint and together hold every family instance     *)
(* that the original wall hosted before the split; each detached instance  *)
(* is in exactly one of rehosted and unmatched; and whenever a layer wall  *)
(* exists a layer is selected for every detached instance, so that an      *)
(* instance is unmatched only because the setting of its host parameter    *)
(* was rejected.                                                           *)
(***************************************************************************)
HostedBeforeSplit(w) == {i \in DOMAIN DocumentBefore.host : DocumentBefore.host[i] = w}

NoRepeats(s) == Cardinality(Range(s)) = Len(s)

InstanceListsPartition(result) ==
    LET rehosted == result.rehosted_instance_ids
        unmatched == result.unmatched_instance_ids
        failed == result.failed_detach_instance_ids
    IN /\ NoRepeats(rehosted) /\ NoRepeats(unmatched) /\ NoRepeats(failed)
       /\ Range(rehosted) \cap Range(unmatched) = {}
       /\ Range(rehosted) \cap Range(failed) = {}
       /\ Range(unmatched) \cap Range(failed) = {}
       /\ Range(rehosted) \cup Range(unmatched) \cup Range(failed)
             = HostedBeforeSplit(result.original_wall_id)
       /\ txState = "started" =>
             \A i \in Range(rehosted) :
                \E nw \in doc.newWalls : nw.Source = result.original_wall_id
                                         /\ doc.host[i] = nw.Id

C36_InstanceListsPartition ==
    /\ \A k \in 1..Len(split_results) : InstanceListsPartition(split_results[k])
    /\ (pc = "rehost" /\ sw.infos # <<>>) =>
          \A i \in Range(sw.detached) :
             /\ i \in DOMAIN doc.host
             /\ select_layer_for_instance(InstInfo(i), sw.infos) \in 1..Len(sw.infos)
             /\ try_rehost_family_instance(
                   doc, i, sw.infos[select_layer_for_instance(InstInfo(i), sw.infos)].wall,
                   "ok").ok
    /\ (pc = "wall_end" /\ sw.returned = "result") =>
          /\ Range(sw.rehosted) \cup Range(sw.unmatched) = Range(sw.detached)
          /\ \A i \in Range(sw.unmatched) : doc.host[i] = InvalidElementId

(* A result with a rehosted instance, and a wall split before or after it  *)
C36_Witness ==
    /\ Len(split_results) = 2
    /\ split_results[1].rehosted_instance_ids # <<>>
    /\ InstanceListsPartition(split_results[1])

(* A result whose instance is unmatched: a layer was selected for it and   *)
(* the setting of the host was rejected.                                   *)
C36_WitnessUnmatched ==
    /\ split_results # <<>>
    /\ split_results[1].unmatched_instance_ids # <<>>
    /\ split_results[1].created_wall_ids # <<>>

(* An instance without an offset: the layer is chosen by function *)
C36_WitnessChosenByFunction ==
    /\ split_results # <<>>
    /\ \E i \in Range(split_results[1].rehosted_instance_ids) : ~ InstInfo(i).hasOffset


(***************************************************************************)
(* C37: in a batch that commits, every wall that ended Skipped is as it    *)
(* was before the command: its hosted instances are hosted by it, the      *)
(* elements that were joined to it are joined to it, and joins are allowed *)
(* at its ends and at the ends of the walls joined to it.  The code does   *)
(* not keep it: what the deletion gate undid before it answered false is   *)
(* not redone (the joins), or is redone at best effort (the hosts).        *)
(***************************************************************************)
BatchCommitted == pc = "done" /\ txState = "committed" /\ tgState = "assimilated"

EndedSkipped(w) == StepsOf(w) # <<>> /\ Last(StepsOf(w)) = "Skipped"

C37_SkippedWallsUntouched ==
    BatchCommitted =>
        \A w \in DOMAIN hist :
            EndedSkipped(w) => WallFootprint(doc, w) = WallFootprint(DocumentBefore, w)

(* What the code keeps: a skipped wall is in the document with no layer    *)
(* wall made from it, a wall skipped at validation is as it was, and a     *)
(* wall skipped by the gate differs at most in the hosts that could not be *)
(* set again, in the joins the gate took apart and in the joins it         *)
(* disallowed.                                                             *)
SkippedWallsKeptAtBestEffort ==
    BatchCommitted =>
        \A w \in DOMAIN hist :
            EndedSkipped(w) =>
                LET now == WallFootprint(doc, w)
                    before == WallFootprint(DocumentBefore, w)
                IN /\ now.exists /\ now.layerWalls = {}
                   /\ SkippedAtValidation(w) => now = before
                   /\ \A i \in DOMAIN now.hosts : now.hosts[i] \in {w, InvalidElementId}
                   /\ now.joined \subseteq before.joined
                   /\ before.joined \ now.joined
                         = {p \in before.joined :
                               /\ p[2] \in Range(hist[w].joins.detached)
                               /\ ElemUnjoin(p[2]) # "notJoined"}

(* A committed batch with a skipped wall whose instance is hosted as       *)
(* before and whose joined wall is no longer joined, joins disallowed at   *)
(* both walls.                                                             *)
SkippedWallLeftUnjoined ==
    /\ BatchCommitted
    /\ \E w \in DOMAIN hist :
          /\ EndedSkipped(w)
          /\ WallFootprint(doc, w).hosts = WallFootprint(DocumentBefore, w).hosts
          /\ WallFootprint(DocumentBefore, w).joined # {}
          /\ WallFootprint(doc, w).joined = {}
          /\ WallFootprint(doc, w).disallowed = {w, JoinedOf(w)}

(* A committed batch with a skipped wall whose instance is left without a  *)
(* host.                                                                   *)
SkippedWallLeftWithoutInstance ==
    /\ BatchCommitted
    /\ \E w \in DOMAIN hist :
          /\ EndedSkipped(w)
          /\ \E i \in DOMAIN wallEnv[w].instances : doc.host[i] = InvalidElementId


(***************************************************************************)
(* C38: after any sequence of get_or_create_layer_type calls in one run    *)
(* the wall types of the document have pairwise distinct names, compared   *)
(* without regard to case, and the name map holds the normalized name of   *)
(* every type that was in the document when the map was built and of       *)
(* every type duplicated since.                                            *)
(***************************************************************************)
NormalizedNamesOf(types) == {normalize_wall_type_name(t.Name) : t \in types}

DuplicatedSinceStart == doc.types \ BaseTypes

C38_DistinctNamesAndFullMap ==
    /\ \A t, u \in doc.types :
          normalize_wall_type_name(t.Name) = normalize_wall_type_name(u.Name) => t = u
    /\ wall_type_name_map.built =>
          /\ NormalizedNamesOf(BaseTypes) \subseteq DOMAIN wall_type_name_map.map
          /\ NormalizedNamesOf(DuplicatedSinceStart) \subseteq DOMAIN wall_type_name_map.map
          /\ \A t \in doc.types :
                wall_type_name_map.map[normalize_wall_type_name(t.Name)] = t.Id
    /\ DuplicatedSinceStart # {} => wall_type_name_map.built

(* The layer types of two walls of different base types in the document,  *)
(* with the base types, all under different names and all in the map.      *)
C38_Witness ==
    /\ txState = "started"
    /\ Cardinality(DuplicatedSinceStart) >= 4
    /\ Cardinality(NormalizedNamesOf(doc.types)) = Cardinality(doc.types)
    /\ NormalizedNamesOf(doc.types) \subseteq DOMAIN wall_type_name_map.map


----------------------------------------------------------------------------
(* The entry of execute (lines 302-333) with collect_target_walls: the     *)
(* command in or outside Revit, with or without an active UI document, on  *)
(* every preselection and every answer of PickObjects.  The elements that  *)
(* can be selected are the walls of the document and one family instance.  *)

EntryWalls == 2

EntryWallEnvs(w) ==
    { PlainWall(w),
      [PlainWall(w) EXCEPT !.typeId = TypeIds.single],
      [PlainWall(w) EXCEPT !.typeId = InvalidElementId] }

SelectableElements == (1..EntryWalls) \cup {InstanceOf(1)}

(* has_multiple_layers *)
has_multiple_layers(d, env) ==
    LET wall_type == try_get_wall_type(d, env)
    IN wall_type # NoneType /\ Len(wall_type.Layers) > 1

(* isinstance(element, Wall) and has_multiple_layers(element), of the      *)
(* element with this id                                                    *)
IsMultiLayerWall(d, e) == e \in d.walls /\ has_multiple_layers(d, wallEnv[e])

(* Faulty variant of collect_target_walls: the preselected walls are taken *)
(* without asking has_multiple_layers                                      *)
collect_target_walls_AnyPreselectedWall(d, selected_ids, picked) ==
    LET preselected == SelectSeq(selected_ids, LAMBDA e : e \in d.walls)
    IN IF preselected # <<>>
       THEN [walls |-> preselected,
             log |-> << <<"preselected", Len(selected_ids)>>,
                        <<"preselection used", Len(preselected)>> >>]
       ELSE [walls |-> <<>>, log |-> << <<"pick cancelled", 0>> >>]

(* collect_target_walls: the preselected multi-layer walls if there are    *)
(* any, else the multi-layer walls among the picked elements; a cancelled  *)
(* pick gives no wall.  The result comes with the diagnostics it logs.     *)
collect_target_walls(d, selected_ids, picked) ==
    LET preselected == SelectSeq(selected_ids, LAMBDA e : IsMultiLayerWall(d, e))
        logSelected == IF selected_ids # <<>>
                       THEN << <<"preselected", Len(selected_ids)>> >> ELSE <<>>
    IN IF preselected # <<>>
       THEN [walls |-> preselected,
             log |-> logSelected \o << <<"preselection used", Len(preselected)>> >>]
       ELSE IF picked.cancelled
       THEN [walls |-> <<>>, log |-> logSelected \o << <<"pick cancelled", 0>> >>]
       ELSE LET walls == SelectSeq(picked.refs, LAMBDA e : IsMultiLayerWall(d, e))
            IN [walls |-> walls,
                log |-> logSelected \o
                        (IF walls # <<>> THEN << <<"picked", Len(walls)>> >> ELSE <<>>)]

PickAnswers ==
    { [cancelled |-> TRUE, refs |-> <<>>] }
    \cup { [cancelled |-> FALSE, refs |-> SetToSeq(S)] : S \in SUBSET SelectableElements }

InitEntry ==
    /\ pc = "call"
    /\ wallEnv \in {f \in [1..EntryWalls -> UNION {EntryWallEnvs(w) : w \in 1..EntryWalls}] :
                       \A w \in 1..EntryWalls : f[w] \in EntryWallEnvs(w)}
    /\ doc = InitialDoc(wallEnv, FALSE, "bob")
    /\ target_walls = <<>>
    /\ IsModifiable = FALSE
    /\ cur = 0
    /\ txState = "unstarted"
    /\ tgState = "unstarted"
    /\ txSnapshot = doc
    /\ tgSnapshot = doc
    /\ split_results = <<>>
    /\ skip_messages = <<>>
    /\ diagnostic_log = <<>>
    /\ layer_type_cache = <<>>
    /\ wall_type_name_map = [built |-> FALSE, map |-> <<>>]
    /\ err = "none"
    /\ shown = <<>>
    /\ txlog = <<>>
    /\ hist = [w \in 1..EntryWalls |-> [steps |-> <<>>, gate |-> "none", restoreSet |-> {},
                                        joins |-> NoJoins]]
    /\ \E available \in BOOLEAN, ui_doc \in BOOLEAN,
          S \in SUBSET SelectableElements, picked \in PickAnswers :
          sw = [fn |-> "execute", REVIT_API_AVAILABLE |-> available, ui_doc |-> ui_doc,
                selected_ids |-> SetToSeq(S), picked |-> picked]

(* execute, from its call to the start of the transaction group or to one  *)
(* of its three early returns (lines 302-333) *)
ExecuteEntry ==
    /\ pc = "call"
    /\ sw.fn = "execute"
    /\ IF ~ sw.REVIT_API_AVAILABLE
       THEN /\ shown' = Append(shown, "not in Revit")
            /\ pc' = "done"
            /\ UNCHANGED <<target_walls, skip_messages, diagnostic_log>>
       ELSE IF ~ sw.ui_doc
       THEN /\ shown' = Append(shown, "no document")
            /\ pc' = "done"
            /\ UNCHANGED <<target_walls, skip_messages, diagnostic_log>>
       ELSE LET collected == collect_target_walls(doc, sw.selected_ids, sw.picked)
                started == LogAll(<<>>, << <<"command started", 0>> >> \o collected.log)
            IN /\ skip_messages' = <<>>
               /\ target_walls' = collected.walls
               /\ IF collected.walls = <<>>
                  THEN /\ diagnostic_log' = started
                       /\ shown' = Append(shown, "no walls")
                       /\ pc' = "done"
                  ELSE /\ diagnostic_log' = log_diagnostic(
                                               started, <<"walls found", Len(collected.walls)>>)
                       /\ shown' = shown
                       /\ pc' = "tgroup_start"
    /\ UNCHANGED <<doc, wallEnv, IsModifiable, cur, txState, tgState, txSnapshot,
                   tgSnapshot, split_results, layer_type_cache, wall_type_name_map,
                   sw, err, txlog, hist>>

NextEntry ==
    \/ ExecuteEntry
    \/ GroupStart
    \/ TxStart

SpecEntry == InitEntry /\ [][NextEntry]_vars

(***************************************************************************)
(* C39: when the command runs outside Revit, has no active UI document, or *)
(* the selection gives an empty batch (a cancelled pick included), execute *)
(* returns without starting a transaction group or a transaction and       *)
(* without any change of the document.  The selection gives an empty batch *)
(* when no preselected element is a wall of several layers and the pick is *)
(* cancelled or no picked element is one.                                  *)
(***************************************************************************)
NothingToSplitOffered ==
    /\ \A e \in Range(sw.selected_ids) : ~ IsMultiLayerWall(DocumentBefore, e)
    /\ sw.picked.cancelled \/ \A e \in Range(sw.picked.refs) : ~ IsMultiLayerWall(DocumentBefore, e)

EarlyReturnCase ==
    \/ ~ sw.REVIT_API_AVAILABLE
    \/ ~ sw.ui_doc
    \/ NothingToSplitOffered

C39_EarlyReturnsTouchNothing ==
    (pc # "call" /\ EarlyReturnCase) =>
        /\ pc = "done"
        /\ tgState = "unstarted"
        /\ txState = "unstarted"
        /\ txlog = <<>>
        /\ ~ IsModifiable
        /\ doc = DocumentBefore
        /\ Len(shown) = 1

(* The pick was cancelled after a preselection without a wall to split *)
C39_Witness ==
    /\ pc = "done"
    /\ sw.REVIT_API_AVAILABLE /\ sw.ui_doc
    /\ sw.selected_ids # <<>>
    /\ sw.picked.cancelled
    /\ shown = <<"no walls">>
    /\ txlog = <<>>

(* Outside Revit, with a wall to split preselected *)
C39_WitnessNotInRevit ==
    /\ pc = "done"
    /\ ~ sw.REVIT_API_AVAILABLE
    /\ ~ NothingToSplitOffered
    /\ shown = <<"not in Revit">>
    /\ txlog = <<>>

(* No active UI document *)
C39_WitnessNoDocument ==
    /\ pc = "done"
    /\ sw.REVIT_API_AVAILABLE /\ ~ sw.ui_doc
    /\ shown = <<"no document">>
    /\ txlog = <<>>

(* A batch that is not empty starts the group and the transaction *)
C39_WitnessBatchStarts ==
    /\ ~ EarlyReturnCase
    /\ txlog = << "TransactionGroup.Start", "Transaction.Start" >>
    /\ target_walls # <<>>

====
